---- MODULE Spec2Model ----
(***************************************************************************)
(* A model of ravel / ravel-web: the DOM of one parent element, the keyed  *)
(* (BTreeMap) reconciler, the with/Cx/Token mechanism, event handlers and  *)
(* the run loop.                                                           *)
(*                                                                         *)
(* The component that is rendered is the one of the examples:              *)
(*   ( on_(Submit, add),                                                   *)
(*     btree_map(&items, |cx, id, checked|                                 *)
(*         cx.build((display(id), display(checked),                        *)
(*                   on_(InputEvent, toggle id)))),                        *)
(*     "end",                                                              *)
(*     on_(Click, clear_completed) )                                       *)
(* built under one parent element.                                         *)
(***************************************************************************)
EXTENDS Integers, Sequences, FiniteSets, TLC

\* ------------------------------------------------------------------ bounds
MaxKey == 2
MaxId == 1
MaxPending == 2
MaxWith == 3

\* ------------------------------------------------------- program constants
NULL == 0

\* The local `state` of run before build and after it is dropped.
NoState == [dropped |-> TRUE]

\* One event value stands for every web_sys::Event.
EV == 1

Keys == 0..MaxKey
Values == {0, 1}
\* The source collections: BTreeMap<K, V> with K = Keys, V = Values.
Maps == UNION {[S -> Values] : S \in SUBSET Keys}

VARIABLES
    dom,        \* the children of the parent element, in sibling order
    state,      \* the state the root component built (NoState before build)
    source,     \* the data the last build / rebuild rendered
    aborted,    \* a rebuild reached todo!() and panicked
    op,         \* history: what the last render was and did
    model,      \* run: the Data (the examples' Model) in the caller's Float
    pc,         \* run: where the task is
    registered, \* run: the AtomicWaker holds the task's waker
    queued,     \* run: the task was woken and waits to be polled
    syncRet,    \* history: what the last sync call returned (NULL for None)
    result,     \* run: the value run returned (NULL while it has not)
    hist,       \* history: the steps of the loop since the last render
    arrived,    \* history: the handlers whose listener fired, in firing order
    trace,      \* history: the handlers whose action the last run pass ran
    overwrote,  \* history: EventCell::put replaced an event (assertion false)
    frames,     \* with: the callbacks of with(..) running, outermost first
    tokens,     \* with: the Token<State> values the program holds
    withCalls,  \* with: the calls of With::build / With::rebuild so far
    built,      \* with: the State the last With::build returned
    lastRet,    \* history: the last callback that returned its Token
    float,      \* Float: the Float<T>, its inner Option as <<>> or <<v>>
    fpc,        \* Float: no Float, a Float at rest, or the callback of float
    floated,    \* Float: what the running callback was given, and by whom
    poisoned,   \* history: a callback of float unwound
    fret        \* history: the last call on the Float that returned

\* ------------------------------------------------------------- sequences
Min(S) == CHOOSE x \in S : \A y \in S : x <= y

RECURSIVE SortedSeq(_)
\* The keys of a BTreeMap in iteration (ascending) order.
SortedSeq(S) ==
    IF S = {} THEN <<>>
    ELSE LET m == Min(S) IN <<m>> \o SortedSeq(S \ {m})

Range(s) == {s[i] : i \in 1..Len(s)}

\* -------------------------------------------------------------------- DOM
\* A node is [id, kind, data]; a fresh node is one no reference names.
Ids(d) == {d[i].id : i \in 1..Len(d)}

IndexOf(d, id) == CHOOSE i \in 1..Len(d) : d[i].id = id

Fresh(used) == Min((1..(Cardinality(used) + 1)) \ used)

Comment(id, data) == [id |-> id, kind |-> "comment", data |-> data]
Text(id, data) == [id |-> id, kind |-> "text", data |-> data]

\* Position::insert: parent.insert_before(node, Some(insert_before)); a null
\* reference node appends.
Insert(d, node, before) ==
    IF before = NULL THEN Append(d, node)
    ELSE IF before \in Ids(d)
         THEN LET i == IndexOf(d, before)
              IN SubSeq(d, 1, i - 1) \o <<node>> \o SubSeq(d, i, Len(d))
         ELSE d

\* parent.remove_child(node)
RemoveChild(d, id) ==
    IF id \in Ids(d)
    THEN LET i == IndexOf(d, id)
         IN SubSeq(d, 1, i - 1) \o SubSeq(d, i + 1, Len(d))
    ELSE d

\* node.set_data(data)
SetData(d, id, data) ==
    [i \in 1..Len(d) |-> IF d[i].id = id THEN [d[i] EXCEPT !.data = data] ELSE d[i]]

\* start.next_sibling()
NextSibling(d, id) ==
    IF id \in Ids(d) /\ IndexOf(d, id) < Len(d) THEN d[IndexOf(d, id) + 1].id ELSE NULL

RECURSIVE clear(_, _, _)
\* dom::clear: remove the siblings after start until end is the next one.
clear(d, start, end) ==
    LET next == NextSibling(d, start)
    IN IF next = NULL \/ next = end THEN d
       ELSE clear(RemoveChild(d, next), start, end)

\* ------------------------------------------------------------- components
\* A build context carries the DOM and the set of object names in use; a
\* build returns both, with the state it built in st.

Digits == <<"0", "1", "2", "3", "4", "5", "6", "7", "8", "9">>

RECURSIVE to_string(_)
\* ToString of an unsigned integer: its decimal digits.
to_string(n) ==
    IF n < 10 THEN Digits[n + 1]
    ELSE to_string(n \div 10) \o Digits[(n % 10) + 1]

\* text.rs Display::build
DisplayBuild(c, before, value) ==
    LET id == Fresh(c.used)
    IN [dom |-> Insert(c.dom, Text(id, to_string(value)), before),
        used |-> c.used \cup {id},
        st |-> [node |-> id, value |-> value]]

\* A Display that writes the text at every rebuild.
DisplayRebuildAlways(d, st, value) ==
    [dom |-> SetData(d, st.node, to_string(value)), wrote |-> TRUE,
     st |-> [st EXCEPT !.value = value]]

\* text.rs Display::rebuild; wrote tells whether set_data was called.
DisplayRebuild(d, st, value) ==
    IF value = st.value THEN [dom |-> d, wrote |-> FALSE, st |-> st]
    ELSE [dom |-> SetData(d, st.node, to_string(value)), wrote |-> TRUE,
          st |-> [st EXCEPT !.value = value]]

\* text.rs <&'static str as Builder>::build
StrBuild(c, before, lit) ==
    LET id == Fresh(c.used)
    IN [dom |-> Insert(c.dom, Text(id, lit), before),
        used |-> c.used \cup {id},
        st |-> [node |-> id, value |-> lit]]

\* text.rs <&'static str as Builder>::rebuild
StrRebuild(d, st, lit) ==
    IF lit = st.value THEN [dom |-> d, st |-> st]
    ELSE [dom |-> SetData(d, st.node, lit), st |-> [st EXCEPT !.value = lit]]

\* event.rs On::build: a new cell, a new listener (handle), the action.
OnBuild(c, action) ==
    LET id == Fresh(c.used)
    IN [dom |-> c.dom,
        used |-> c.used \cup {id},
        st |-> [event |-> NULL, handle |-> id, action |-> action]]

\* A rebuild that also empties the cell.
OnRebuildEmptied(st, action) ==
    [st EXCEPT !.action = action, !.event = NULL]

\* event.rs On::rebuild
OnRebuild(st, action) ==
    [st EXCEPT !.action = action]

\* The entry view of the examples: (display(id), display(checked),
\* on_(InputEvent, toggle id)); a tuple builds left to right (lib.rs), each
\* element from the context the one before left.
ItemPack(a, b, h) ==
    [dom |-> h.dom, used |-> h.used,
     st |-> [key |-> a.st, val |-> b.st, on |-> h.st]]

ItemBuildOn(a, b, k) == ItemPack(a, b, OnBuild(b, <<"toggle", k>>))

ItemBuildVal(a, before, k, v) == ItemBuildOn(a, DisplayBuild(a, before, v), k)

ItemBuild(c, before, k, v) == ItemBuildVal(DisplayBuild(c, before, k), before, k, v)

\* The tuple rebuilds left to right.
ItemRebuildPack(a, b, st, k) ==
    [dom |-> b.dom,
     st |-> [key |-> a.st, val |-> b.st, on |-> OnRebuild(st.on, <<"toggle", k>>)]]

ItemRebuildVal(a, st, k, v) ==
    ItemRebuildPack(a, DisplayRebuild(a.dom, st.val, v), st, k)

ItemRebuild(d, st, k, v) == ItemRebuildVal(DisplayRebuild(d, st.key, k), st, k, v)

\* ------------------------------------------------- keyed reconciler: build
\* let header = Comment::new_with_data("|"); position.insert(&header)
HeaderInsert(c, before) ==
    LET header == Fresh(c.used)
    IN [dom |-> Insert(c.dom, Comment(header, "|"), before),
        used |-> c.used \cup {header},
        header |-> header]

EntryPack(c1, e) ==
    [dom |-> e.dom, used |-> e.used,
     st |-> [header |-> c1.header, state |-> e.st]]

\* Entry { header, state: with(|cx| render_item(cx, k, v)).build(cx) }
EntryBuildIn(c1, before, k, v) == EntryPack(c1, ItemBuild(c1, before, k, v))

EntryBuild(c, before, k, v) == EntryBuildIn(HeaderInsert(c, before), before, k, v)

RECURSIVE BuildEntries(_, _, _, _, _)
RECURSIVE BuildEntriesNext(_, _, _, _, _)
\* btree_map.rs build, the iteration over the source in key order.
BuildEntries(c, before, items, ks, entries) ==
    IF ks = <<>> THEN [dom |-> c.dom, used |-> c.used, st |-> entries]
    ELSE BuildEntriesNext(EntryBuild(c, before, Head(ks), items[Head(ks)]),
                          before, items, ks, entries)

BuildEntriesNext(e, before, items, ks, entries) ==
    BuildEntries(e, before, items, Tail(ks), (Head(ks) :> e.st) @@ entries)

\* let footer = Comment::new_with_data("|"); cx.position.insert(&footer)
FooterInsert(es, before) ==
    LET footer == Fresh(es.used)
    IN [dom |-> Insert(es.dom, Comment(footer, "|"), before),
        used |-> es.used \cup {footer},
        st |-> [data |-> es.st, footer |-> footer]]

\* btree_map.rs BTreeMapBuilder::build
BTreeMapBuild(c, before, items) ==
    FooterInsert(BuildEntries(c, before, items, SortedSeq(DOMAIN items), <<>>), before)

\* ----------------------------------------------- keyed reconciler: rebuild
\* The merge works on r = [dom, used, entries, footer, add, remove, aborted].

\* (None, Some) and Ordering::Greater: the existing key is to be removed.
MergeRemove(r, k) == [r EXCEPT !.remove = Append(@, k)]

MergeAdd(r, k, e) ==
    [r EXCEPT !.dom = e.dom, !.used = e.used, !.add = Append(@, <<k, e.st>>)]

\* (Some, None): header before the footer, entry built before the footer.
MergeAppend(r, items, k) ==
    MergeAdd(r, k, EntryBuild([dom |-> r.dom, used |-> r.used], r.footer, k, items[k]))

MergeRebuilt(r, k, e) == [r EXCEPT !.dom = e.dom, !.entries[k].state = e.st]

MergeReplaced(r, k, e) ==
    [r EXCEPT !.dom = e.dom, !.used = e.used, !.entries[k].state = e.st]

\* A slip of the Equal arm: the entry is cleared and built anew.
MergeEqualRebuilt(r, items, k) ==
    MergeReplaced(r, k,
        ItemBuild([dom |-> clear(r.dom, r.entries[k].header,
                                 NextSibling(r.dom, r.entries[k].state.val.node)),
                   used |-> r.used],
                  NextSibling(r.dom, r.entries[k].state.val.node), k, items[k]))

\* Ordering::Equal: the entry is rebuilt in place.
MergeEqual(r, items, k) ==
    MergeRebuilt(r, k, ItemRebuild(r.dom, r.entries[k].state, k, items[k]))

\* A slip of the Less arm: the header of the new entry is inserted before
\* the abort.
MergeTodoInserted(r) ==
    [r EXCEPT !.aborted = TRUE,
              !.dom = Insert(@, Comment(Fresh(r.used), "|"), r.footer)]

\* Ordering::Less: todo!()
MergeTodo(r) ==
    [r EXCEPT !.aborted = TRUE]

RECURSIVE Merge(_, _, _, _)
\* A slip of the loop: the arms of sk.cmp(ek) the other way round, todo!()
\* where the existing key is the smaller one.
MergeArmsSwapped(r, items, src, ex) ==
    IF src = <<>> /\ ex = <<>> THEN r
    ELSE IF src = <<>> THEN Merge(MergeRemove(r, Head(ex)), items, src, Tail(ex))
    ELSE IF ex = <<>> THEN Merge(MergeAppend(r, items, Head(src)), items, Tail(src), ex)
    ELSE IF Head(src) = Head(ex)
         THEN Merge(MergeEqual(r, items, Head(src)), items, Tail(src), Tail(ex))
    ELSE IF Head(src) > Head(ex)
         THEN MergeTodo(r)
    ELSE Merge(MergeRemove(r, Head(ex)), items, src, Tail(ex))

\* btree_map.rs rebuild, the loop over (source.peek(), existing.peek()).
Merge(r, items, src, ex) ==
    IF src = <<>> /\ ex = <<>> THEN r
    ELSE IF src = <<>> THEN Merge(MergeRemove(r, Head(ex)), items, src, Tail(ex))
    ELSE IF ex = <<>> THEN Merge(MergeAppend(r, items, Head(src)), items, Tail(src), ex)
    ELSE IF Head(src) = Head(ex)
         THEN Merge(MergeEqual(r, items, Head(src)), items, Tail(src), Tail(ex))
    ELSE IF Head(src) < Head(ex)
         THEN MergeTodo(r)
    ELSE Merge(MergeRemove(r, Head(ex)), items, src, Tail(ex))

RECURSIVE Extend(_, _)
\* sdata.extend(add)
Extend(entries, add) ==
    IF add = <<>> THEN entries
    ELSE Extend((Head(add)[1] :> Head(add)[2]) @@ entries, Tail(add))

\* One pass of `for k in remove`: drop the entry, clear up to the header of
\* the next entry of sdata (or the footer), remove the header.
RemoveEntry(r, k) ==
    LET e == r.entries[k]
        rest == [x \in DOMAIN r.entries \ {k} |-> r.entries[x]]
        later == {x \in DOMAIN r.entries : x > k}
        end == IF later # {} THEN r.entries[Min(later)].header ELSE r.footer
    IN [r EXCEPT !.entries = rest,
                 !.dom = RemoveChild(clear(r.dom, e.header, end), e.header)]

RECURSIVE RemoveAll(_, _)
RemoveAll(r, ks) ==
    IF ks = <<>> THEN r ELSE RemoveAll(RemoveEntry(r, Head(ks)), Tail(ks))

RebuildPack(f, st) ==
    [dom |-> f.dom, aborted |-> f.aborted,
     st |-> [data |-> f.entries, footer |-> st.footer]]

\* After the loop: sdata.extend(add), then the removals; a panic in the
\* loop (todo!()) leaves what the loop did so far and skips both.
RebuildFinish(m, st) ==
    RebuildPack(IF m.aborted THEN m
                ELSE RemoveAll([m EXCEPT !.entries = Extend(m.entries, m.add)],
                               m.remove),
                st)

\* btree_map.rs BTreeMapBuilder::rebuild
BTreeMapRebuild(d, used, st, items) ==
    RebuildFinish(
        Merge([dom |-> d, used |-> used, entries |-> st.data, footer |-> st.footer,
               add |-> <<>>, remove |-> <<>>, aborted |-> FALSE],
              items, SortedSeq(DOMAIN items), SortedSeq(DOMAIN st.data)),
        st)

\* ------------------------------------------------------ the root component
\* The tuple (on_(Submit, add), btree_map(..), "end", on_(Click, clear)),
\* built and rebuilt left to right (lib.rs tuple_builder!), through
\* with(|cx| render(cx, data)) and Cx::build.
RootPack(a, l, e, b) ==
    [dom |-> b.dom, used |-> b.used,
     st |-> [a |-> a.st, list |-> l.st, end |-> e.st, b |-> b.st]]

RootBuildB(a, l, e) == RootPack(a, l, e, OnBuild(e, <<"clear">>))

RootBuildEnd(a, l, before) == RootBuildB(a, l, StrBuild(l, before, "end"))

RootBuildList(a, before, items) ==
    RootBuildEnd(a, BTreeMapBuild(a, before, items), before)

RootBuild(c, before, items) == RootBuildList(OnBuild(c, <<"add">>), before, items)

RootRebuildPack(st, l, e) ==
    [dom |-> e.dom, aborted |-> FALSE,
     st |-> [a |-> OnRebuild(st.a, <<"add">>), list |-> l.st, end |-> e.st,
             b |-> OnRebuild(st.b, <<"clear">>)]]

\* A panic in the keyed rebuild leaves the elements after it as they were.
RootRebuildEnd(st, l) ==
    IF l.aborted
    THEN [dom |-> l.dom, aborted |-> TRUE,
          st |-> [st EXCEPT !.a = OnRebuild(st.a, <<"add">>), !.list = l.st]]
    ELSE RootRebuildPack(st, l, StrRebuild(l.dom, st.end, "end"))

RootRebuild(d, used, st, items) ==
    RootRebuildEnd(st, BTreeMapRebuild(d, used, st.list, items))

\* Every object name a root state refers to, with the nodes of the DOM.
UsedIds(d, st) ==
    Ids(d) \cup (IF st = NoState THEN {}
                 ELSE {st.a.handle, st.b.handle}
                      \cup {st.list.data[k].state.on.handle : k \in DOMAIN st.list.data})

\* ------------------------------------------- the reconciler, driven freely
\* The history of a render over source m after source old: its kind, and
\* whether it had at once a key to keep with a new value, a key to insert
\* and a key to remove.
OpOf(kind, old, m) ==
    [kind |-> kind,
     mixed |-> /\ \E k \in DOMAIN old \cap DOMAIN m : old[k] # m[k]
               /\ DOMAIN m \ DOMAIN old # {}
               /\ DOMAIN old \ DOMAIN m # {}]

NoOp == [kind |-> "none", mixed |-> FALSE]

runVars == <<model, pc, registered, queued, syncRet, result, hist, arrived, trace,
             overwrote>>

withVars == <<frames, tokens, withCalls, built, lastRet>>

floatVars == <<float, fpc, floated, poisoned, fret>>

\* Option<T>: None is <<>>, Some(v) is <<v>>.
None == <<>>
Some(v) == <<v>>

NoCall == [op |-> "none", before |-> None, arg |-> 0, ok |-> TRUE, val |-> 0,
           prev |-> "none"]

\* There is no Float.
FloatIdle ==
    /\ float = [inner |-> None]
    /\ fpc = "none"
    /\ floated = [value |-> None, by |-> "none"]
    /\ poisoned = FALSE
    /\ fret = NoCall

NoRet == [mode |-> "none", own |-> TRUE, written |-> TRUE]

\* No with(..) is in progress.
WithIdle ==
    /\ frames = <<>>
    /\ tokens = 0
    /\ withCalls = 0
    /\ built = "none"
    /\ lastRet = NoRet

\* The run loop is not started.
RunIdle ==
    /\ model = <<>>
    /\ pc = "idle"
    /\ registered = FALSE
    /\ queued = FALSE
    /\ syncRet = NULL
    /\ result = NULL
    /\ hist = <<>>
    /\ arrived = <<>>
    /\ trace = <<>>
    /\ overwrote = FALSE

InitMap ==
    /\ dom = <<>>
    /\ state = NoState
    /\ source = <<>>
    /\ aborted = FALSE
    /\ op = NoOp
    /\ RunIdle
    /\ WithIdle
    /\ FloatIdle

\* Builder::build of the root with any source map.
MapBuild(m) ==
    /\ state = NoState
    /\ \E r \in {RootBuild([dom |-> dom, used |-> {}], NULL, m)} :
          /\ dom' = r.dom
          /\ state' = r.st
    /\ source' = m
    /\ op' = OpOf("build", source, m)
    /\ UNCHANGED <<aborted, runVars>>
    /\ UNCHANGED withVars
    /\ UNCHANGED floatVars

\* Builder::rebuild of the root with any source map.
MapRebuild(m) ==
    /\ state # NoState
    /\ ~aborted
    /\ \E r \in {RootRebuild(dom, UsedIds(dom, state), state, m)} :
          /\ dom' = r.dom
          /\ state' = r.st
          /\ aborted' = r.aborted
    /\ source' = m
    /\ op' = OpOf("rebuild", source, m)
    /\ UNCHANGED runVars
    /\ UNCHANGED withVars
    /\ UNCHANGED floatVars

NextMap ==
    \/ \E m \in Maps : MapBuild(m)
    \/ \E m \in Maps : MapRebuild(m)

vars == <<dom, state, source, aborted, op, model, pc, registered, queued, syncRet,
          result, hist, arrived, trace, overwrote, frames, tokens, withCalls, built,
          lastRet, float, fpc, floated, poisoned, fret>>

SpecMap == InitMap /\ [][NextMap]_vars

\* ------------------------------------------------ the region of the parent
\* The children the keyed state describes: per key ascending, the entry's
\* header, key node and value node; then the footer.
RECURSIVE RegionOf(_, _)
RegionOf(st, ks) ==
    IF ks = <<>> THEN <<Comment(st.footer, "|")>>
    ELSE LET e == st.data[Head(ks)]
         IN <<Comment(e.header, "|"),
              Text(e.state.key.node, to_string(e.state.key.value)),
              Text(e.state.val.node, to_string(e.state.val.value))>>
            \o RegionOf(st, Tail(ks))

\* The children of the parent the root state and the source ask for.
Expected(st, m) ==
    RegionOf(st.list, SortedSeq(DOMAIN m)) \o <<Text(st.end.node, "end")>>

NoDup(d) == \A i, j \in 1..Len(d) : d[i].id = d[j].id => i = j

\* C1: after build and after every rebuild, for any sequence of source maps,
\* the children are, per key of the current source ascending, the entry's
\* header and content, then one footer; the state's keys are the source's.
C1_OrderAfterEveryRebuild ==
    state # NoState =>
        /\ DOMAIN state.list.data = DOMAIN source
        /\ dom = Expected(state, source)
        /\ \A k \in DOMAIN source :
              /\ state.list.data[k].state.key.value = k
              /\ state.list.data[k].state.val.value = source[k]
        /\ NoDup(dom)

\* The same, for a build and for the rebuilds that return.
OrderAfterCompletedRebuild == ~aborted => C1_OrderAfterEveryRebuild

\* ------------------------------------------------------- identity of states
\* The same entry state: the same nodes and the same listener.
SameEntry(e, f) ==
    /\ e.header = f.header
    /\ e.state.key.node = f.state.key.node
    /\ e.state.val.node = f.state.val.node
    /\ e.state.on.handle = f.state.on.handle

EntryNodes(e) == {e.header, e.state.key.node, e.state.val.node}

\* What C2 says of one rebuild, from (d0, st0, src0) to (st1, src1).
IdentityStep(d0, st0, src0, st1, src1, ab1) ==
    LET old == st0.list.data
        new == st1.list.data
    IN /\ \A k \in DOMAIN src0 \cap DOMAIN src1 :
             /\ k \in DOMAIN new
             /\ SameEntry(new[k], old[k])
             /\ ~ab1 => new[k].state.val.value = src1[k]
       /\ \A k \in DOMAIN new \ DOMAIN old :
             /\ k \in DOMAIN src1 \ DOMAIN src0
             /\ (EntryNodes(new[k]) \cup {new[k].state.on.handle})
                    \cap UsedIds(d0, st0) = {}
       /\ \A k \in DOMAIN old \ DOMAIN new : k \notin DOMAIN src1

\* C2: across a rebuild every key of the source before and after keeps its
\* state instance, rebuilt in place; only keys new in the source get a state,
\* and it is a freshly built one; only keys missing from the source lose it.
C2_IdentityPreserved ==
    [][(state # NoState /\ state' # NoState) =>
           IdentityStep(dom, state, source, state', source', aborted')]_vars

\* A rebuild that kept one key with a new value, inserted one, removed one.
C2_Witness ==
    /\ op.kind = "rebuild"
    /\ ~aborted
    /\ op.mixed

\* The children of d that are among ids, in their order.
RECURSIVE Surviving(_, _)
Surviving(d, ids) ==
    IF d = <<>> THEN <<>>
    ELSE IF Head(d).id \in ids THEN <<Head(d).id>> \o Surviving(Tail(d), ids)
    ELSE Surviving(Tail(d), ids)

\* What C3 says of one rebuild whose source lacks the existing keys gone.
RemovalStep(d0, st0, src0, d1, st1, src1) ==
    LET old == st0.list.data
        new == st1.list.data
        gone == DOMAIN src0 \ DOMAIN src1
    IN /\ Ids(d0) \ Ids(d1) = UNION {EntryNodes(old[k]) : k \in gone}
       /\ \A k \in DOMAIN src0 \ gone :
             /\ k \in DOMAIN new
             /\ SameEntry(new[k], old[k])
             /\ EntryNodes(new[k]) \subseteq Ids(d1)
       /\ st1.list.footer = st0.list.footer
       /\ st1.list.footer \in Ids(d1)
       /\ Surviving(d1, Ids(d0)) = Surviving(d0, Ids(d1))

\* C3: a rebuild whose source lacks existing keys removes exactly their
\* headers and the nodes up to the next surviving header (or the footer);
\* the headers, nodes and states of the other entries and the footer stay.
C3_RemovalExact ==
    [][(state # NoState /\ state' # NoState
            /\ DOMAIN source \ DOMAIN source' # {}) =>
           RemovalStep(dom, state, source, dom', state', source')]_vars

\* The same, for the rebuilds that return.
RemovalExactWhenCompleted ==
    [][(state # NoState /\ state' # NoState /\ ~aborted'
            /\ DOMAIN source \ DOMAIN source' # {}) =>
           RemovalStep(dom, state, source, dom', state', source')]_vars

\* ================================================================ run loop
\* The handlers of a root state in the order State::run visits them: the
\* tuple left to right (lib.rs tuple_state!), the entries of the keyed state
\* by values_mut() (btree_map.rs), ascending.
RECURSIVE ItemHandlers(_)
ItemHandlers(ks) ==
    IF ks = <<>> THEN <<>> ELSE <<<<"item", Head(ks)>>>> \o ItemHandlers(Tail(ks))

RunOrder(st) ==
    <<<<"a">>>> \o ItemHandlers(SortedSeq(DOMAIN st.list.data)) \o <<<<"b">>>>

\* The OnState of handler h, and the state with the cell of h set.
OnOf(st, h) ==
    IF h = <<"a">> THEN st.a
    ELSE IF h = <<"b">> THEN st.b
    ELSE st.list.data[h[2]].state.on

WithCell(st, h, v) ==
    IF h = <<"a">> THEN [st EXCEPT !.a.event = v]
    ELSE IF h = <<"b">> THEN [st EXCEPT !.b.event = v]
    ELSE [st EXCEPT !.list.data[h[2]].state.on.event = v]

Max(S) == CHOOSE x \in S : \A y \in S : x >= y

\* todomvc Model::add: the id after the last key, or 0.
NextItemId(m) == IF DOMAIN m = {} THEN 0 ELSE Max(DOMAIN m) + 1

\* The actions of the examples' handlers on the Model; get_mut(&id)
\* .unwrap_throw() panics on a missing key.
ApplyAction(m, act) ==
    IF act = <<"add">>
    THEN [model |-> (NextItemId(m) :> 0) @@ m, panic |-> FALSE]
    ELSE IF act = <<"clear">>
    THEN [model |-> [k \in {x \in DOMAIN m : m[x] = 0} |-> m[k]], panic |-> FALSE]
    ELSE IF act[2] \in DOMAIN m
    THEN [model |-> [m EXCEPT ![act[2]] = 1 - @], panic |-> FALSE]
    ELSE [model |-> m, panic |-> TRUE]

\* event.rs OnState::run: take the cell; run the action on a taken event.
OnRun(r, h) ==
    LET on == OnOf(r.st, h)
        a == ApplyAction(r.model, on.action)
    IN IF on.event = NULL THEN r
       ELSE [st |-> WithCell(r.st, h, NULL), model |-> a.model,
             trace |-> Append(r.trace, h), panic |-> a.panic]

RECURSIVE RunAll(_, _)
\* State::run over the handlers hs, in order; a panic ends the pass.
RunAll(r, hs) ==
    IF hs = <<>> \/ r.panic THEN r ELSE RunAll(OnRun(r, Head(hs)), Tail(hs))

\* State::run of the root state on the Model.
StateRun(st, m, order) ==
    RunAll([st |-> st, model |-> m, trace |-> <<>>, panic |-> FALSE], RunOrder(st))

\* The values a sync callback may return in Some(..).
Results == {1, 2}

\* The initial Data: any map over the ids Model::add hands out here.
RunMaps == UNION {[S -> Values] : S \in SUBSET (0..MaxId)}

InitRun ==
    /\ dom = <<>>
    /\ state = NoState
    /\ source = <<>>
    /\ aborted = FALSE
    /\ op = NoOp
    /\ model \in RunMaps
    /\ pc = "start"
    /\ registered = FALSE
    /\ queued = FALSE
    /\ syncRet = NULL
    /\ result = NULL
    /\ hist = <<>>
    /\ arrived = <<>>
    /\ trace = <<>>
    /\ overwrote = FALSE
    /\ WithIdle
    /\ FloatIdle

\* run.rs: waker.register(&futures_micro::waker().await) before the build.
Start ==
    /\ pc = "start"
    /\ registered' = TRUE
    /\ pc' = "build"
    /\ UNCHANGED <<dom, state, source, aborted, op, model, queued, syncRet, result,
                   hist, arrived, trace, overwrote>>
    /\ UNCHANGED withVars
    /\ UNCHANGED floatVars

\* A slip of the loop: its body starts with state.run and sleeps last.
BuildThenRun ==
    /\ pc = "build"
    /\ \E r \in {RootBuild([dom |-> dom, used |-> {}], NULL, model)} :
          /\ dom' = r.dom
          /\ state' = r.st
    /\ source' = model
    /\ op' = OpOf("build", source, model)
    /\ hist' = <<"render">>
    /\ pc' = "run"
    /\ UNCHANGED <<aborted, model, registered, queued, syncRet, result, arrived,
                   trace, overwrote>>
    /\ UNCHANGED withVars
    /\ UNCHANGED floatVars

\* run.rs: with(|cx| render(cx, data)).build(..) on the parent.
Build ==
    /\ pc = "build"
    /\ \E r \in {RootBuild([dom |-> dom, used |-> {}], NULL, model)} :
          /\ dom' = r.dom
          /\ state' = r.st
    /\ source' = model
    /\ op' = OpOf("build", source, model)
    /\ hist' = <<"render">>
    /\ pc' = "sleep"
    /\ UNCHANGED <<aborted, model, registered, queued, syncRet, result, arrived,
                   trace, overwrote>>
    /\ UNCHANGED withVars
    /\ UNCHANGED floatVars

\* A slip of the loop: nothing is awaited between the render and the run.
SleepReady ==
    /\ pc = "sleep"
    /\ pc' = "run"
    /\ arrived' = <<>>
    /\ trace' = <<>>
    /\ UNCHANGED <<dom, state, source, aborted, op, model, registered, queued,
                   syncRet, result, hist, overwrote>>
    /\ UNCHANGED withVars
    /\ UNCHANGED floatVars

\* run.rs: futures_micro::sleep().await, first poll: the task suspends.
Sleep ==
    /\ pc = "sleep"
    /\ pc' = "suspended"
    /\ hist' = Append(hist, "suspend")
    /\ arrived' = <<>>
    /\ trace' = <<>>
    /\ UNCHANGED <<dom, state, source, aborted, op, model, registered, queued,
                   syncRet, result, overwrote>>
    /\ UNCHANGED withVars
    /\ UNCHANGED floatVars

\* The executor polls the woken task: sleep() is ready.
Resume ==
    /\ pc = "suspended"
    /\ queued
    /\ queued' = FALSE
    /\ pc' = "run"
    /\ UNCHANGED <<dom, state, source, aborted, op, model, registered, syncRet,
                   result, hist, arrived, trace, overwrote>>
    /\ UNCHANGED withVars
    /\ UNCHANGED floatVars

\* run.rs: state.run(data).
RunPass ==
    /\ pc = "run"
    /\ \E r \in {StateRun(state, model, arrived)} :
          /\ state' = r.st
          /\ model' = r.model
          /\ trace' = r.trace
          /\ pc' = IF r.panic THEN "panicked" ELSE "sync"
    /\ hist' = Append(hist, "run")
    /\ UNCHANGED <<dom, source, aborted, op, registered, queued, syncRet, result,
                   arrived, overwrote>>
    /\ UNCHANGED withVars
    /\ UNCHANGED floatVars

\* What a sync callback may leave in the Data: it as it is, or emptied.
SyncData(m) == {m, <<>>}

\* A slip of the loop: the result of sync is dropped and the loop goes on.
SyncGoesOn(r, d) ==
    /\ pc = "sync"
    /\ syncRet' = r
    /\ model' = d
    /\ hist' = Append(hist, "sync")
    /\ pc' = "rebuild"
    /\ UNCHANGED <<state, result>>
    /\ UNCHANGED <<dom, source, aborted, op, registered, queued, arrived, trace,
                   overwrote>>
    /\ UNCHANGED withVars
    /\ UNCHANGED floatVars

\* run.rs: sync(data), which may update the Data; Some(result) returns it
\* and drops the state (the listeners go with their handles), None goes on
\* to the rebuild.
Sync(r, d) ==
    /\ pc = "sync"
    /\ syncRet' = r
    /\ model' = d
    /\ hist' = Append(hist, "sync")
    /\ IF r = NULL
       THEN /\ pc' = "rebuild"
            /\ UNCHANGED <<state, result>>
       ELSE /\ pc' = "done"
            /\ result' = r
            /\ state' = NoState
    /\ UNCHANGED <<dom, source, aborted, op, registered, queued, arrived, trace,
                   overwrote>>
    /\ UNCHANGED withVars
    /\ UNCHANGED floatVars

\* A slip of the loop: every render is a build on the parent.
RebuildBuilds ==
    /\ pc = "rebuild"
    /\ \E r \in {RootBuild([dom |-> dom, used |-> UsedIds(dom, state)], NULL, model)} :
          /\ dom' = r.dom
          /\ state' = r.st
    /\ aborted' = FALSE
    /\ pc' = "register"
    /\ source' = model
    /\ op' = OpOf("build", source, model)
    /\ hist' = <<"render">>
    /\ UNCHANGED <<model, registered, queued, syncRet, result, arrived, trace,
                   overwrote>>
    /\ UNCHANGED withVars
    /\ UNCHANGED floatVars

\* A slip of the loop: the rebuild renders the Data as the render before
\* saw it.
RebuildStale ==
    /\ pc = "rebuild"
    /\ \E r \in {RootRebuild(dom, UsedIds(dom, state), state, source)} :
          /\ dom' = r.dom
          /\ state' = r.st
          /\ aborted' = r.aborted
          /\ pc' = IF r.aborted THEN "panicked" ELSE "register"
    /\ source' = source
    /\ op' = OpOf("rebuild", source, source)
    /\ hist' = <<"render">>
    /\ UNCHANGED <<model, registered, queued, syncRet, result, arrived, trace,
                   overwrote>>
    /\ UNCHANGED withVars
    /\ UNCHANGED floatVars

\* run.rs: with(|cx| render(cx, data)).rebuild(.., &mut state).
Rebuild ==
    /\ pc = "rebuild"
    /\ \E r \in {RootRebuild(dom, UsedIds(dom, state), state, model)} :
          /\ dom' = r.dom
          /\ state' = r.st
          /\ aborted' = r.aborted
          /\ pc' = IF r.aborted THEN "panicked" ELSE "register"
    /\ source' = model
    /\ op' = OpOf("rebuild", source, model)
    /\ hist' = <<"render">>
    /\ UNCHANGED <<model, registered, queued, syncRet, result, arrived, trace,
                   overwrote>>
    /\ UNCHANGED withVars
    /\ UNCHANGED floatVars

\* run.rs: waker.register(&futures_micro::waker().await) after the rebuild.
Register ==
    /\ pc = "register"
    /\ registered' = TRUE
    /\ pc' = "sleep"
    /\ UNCHANGED <<dom, state, source, aborted, op, model, queued, syncRet, result,
                   hist, arrived, trace, overwrote>>
    /\ UNCHANGED withVars
    /\ UNCHANGED floatVars

\* A slip of the listener: it runs the action itself.
ListenerDirect(h) ==
    /\ state' = WithCell(state, h, EV)
    /\ model' = ApplyAction(model, OnOf(state, h).action).model
    /\ overwrote' = (overwrote \/ OnOf(state, h).event # NULL)
    /\ registered' = FALSE
    /\ queued' = (queued \/ registered)

\* event.rs On::build, the listener: cell.put(e) (which asserts the cell
\* was null), then waker.wake() (which takes the registered waker).
Listener(h) ==
    /\ state' = WithCell(state, h, EV)
    /\ overwrote' = (overwrote \/ OnOf(state, h).event # NULL)
    /\ registered' = FALSE
    /\ queued' = (queued \/ registered)
    /\ model' = model

\* The host fires the listener of a live handler while the task is not
\* running; the add handler is capped at the ids the model covers.
Fire(h) ==
    /\ pc = "suspended"
    /\ Len(arrived) < MaxPending
    /\ h = <<"a">> => NextItemId(model) <= MaxId
    /\ Listener(h)
    /\ arrived' = Append(arrived, h)
    /\ UNCHANGED <<dom, source, aborted, op, pc, syncRet, result, hist, trace>>
    /\ UNCHANGED withVars
    /\ UNCHANGED floatVars

Next ==
    \/ Start
    \/ Build
    \/ Sleep
    \/ Resume
    \/ RunPass
    \/ \E r \in {NULL} \cup Results : \E d \in SyncData(model) : Sync(r, d)
    \/ Rebuild
    \/ Register
    \/ \E h \in (IF state = NoState THEN {} ELSE Range(RunOrder(state))) : Fire(h)

Init == InitRun

Spec == Init /\ [][Next]_vars

\* ------------------------------------------------- properties of the loop
\* C5: run returns r exactly when a sync call returned Some(r), at once and
\* with no step of the loop after it; while every sync call returns None the
\* loop is never terminated.
C5_ReturnsOnlyThroughSync ==
    /\ [](pc = "done" <=> syncRet # NULL)
    /\ [](IF pc = "done" THEN result = syncRet ELSE result = NULL)
    /\ [][pc # "done"]_vars

\* run has returned the value the last sync call gave.
C5_Witness == pc = "done" /\ result = 2 /\ syncRet = 2

SuspendCount(h) == Cardinality({i \in 1..Len(h) : h[i] = "suspend"})

\* C6: between one render and the next there is exactly one suspension, and
\* it comes after the render; while the task is suspended nothing renders,
\* no run pass and no sync call takes place.
C6_OneSuspensionPerCycle ==
    /\ [](SuspendCount(hist) <= 1)
    /\ [](hist # <<>> => hist[1] = "render")
    /\ [](pc \in {"suspended", "run", "sync", "rebuild"} => SuspendCount(hist) = 1)
    /\ [][pc = "suspended" =>
             (hist' = hist /\ dom' = dom /\ source' = source /\ model' = model
                 /\ trace' = trace /\ syncRet' = syncRet)]_vars

\* The task is suspended in a cycle that began with a rebuild.
C6_Witness ==
    /\ pc = "suspended"
    /\ op.kind = "rebuild"
    /\ hist = <<"render", "suspend">>

IsPrefix(s, t) == Len(s) <= Len(t) /\ SubSeq(t, 1, Len(s)) = s

\* C7 as stated: on each pass the render comes first, then the run pass,
\* then sync, then the suspension.
C7_RenderRunSyncSuspend ==
    IsPrefix(hist, <<"render", "run", "sync", "suspend">>)

\* C7 as amended: on each pass the render comes first, then the suspension
\* until a listener wakes the task, then the run pass, then sync; the next
\* render follows a pass that had all four.
C7_RenderSuspendRunSync ==
    /\ IsPrefix(hist, <<"render", "suspend", "run", "sync">>)
    /\ pc = "rebuild" => hist = <<"render", "suspend", "run", "sync">>

\* A pass that went through its four steps and is about to render again.
C7_Witness ==
    /\ pc = "rebuild"
    /\ hist = <<"render", "suspend", "run", "sync">>
    /\ trace # <<>>

\* C8: the Data changes only in a run pass and in sync; a listener firing
\* stores the event in the cell of its handler and wakes the task, and
\* leaves the Data, the children and the rest of the component state alone.
C8_ListenerOnlyRecords ==
    [][/\ model' # model => pc \in {"run", "sync"}
       /\ Len(arrived') = Len(arrived) + 1 =>
              /\ model' = model
              /\ dom' = dom
              /\ pc' = pc
              /\ \E h \in Range(RunOrder(state)) :
                     /\ arrived' = Append(arrived, h)
                     /\ state' = WithCell(state, h, EV)]_vars

\* A run pass ran the action of a recorded event and changed the Data.
C8_Witness ==
    /\ pc = "sync"
    /\ trace # <<>>
    /\ model # source

RECURSIVE Copies(_, _)
\* The occurrences of h in s, as a sequence.
Copies(h, s) ==
    IF s = <<>> THEN <<>>
    ELSE IF Head(s) = h THEN <<h>> \o Copies(h, Tail(s))
    ELSE Copies(h, Tail(s))

RECURSIVE Delivered(_, _)
\* The events arr, put in the order of the handlers.
Delivered(order, arr) ==
    IF order = <<>> THEN <<>>
    ELSE Copies(Head(order), arr) \o Delivered(Tail(order), arr)

RECURSIVE Once(_, _)
\* The handlers of order that have an event among arr.
Once(order, arr) ==
    IF order = <<>> THEN <<>>
    ELSE IF Head(order) \in Range(arr) THEN <<Head(order)>> \o Once(Tail(order), arr)
    ELSE Once(Tail(order), arr)

\* C9: the run pass after a suspension runs the action of every event
\* recorded during it, in the declaration order of the handlers, whatever
\* the order the events arrived in.
C9_AllDeliveredInDeclarationOrder ==
    [][pc = "run" => trace' = Delivered(RunOrder(state), arrived)]_vars

\* What the run pass does: one action per handler that recorded an event,
\* in declaration order.
OncePerHandlerInDeclarationOrder ==
    [][pc = "run" => trace' = Once(RunOrder(state), arrived)]_vars

\* C10: EventCell::put always finds the cell null, so that no recorded
\* event is overwritten.
C10_PutFindsCellEmpty == ~overwrote

\* ======================================================== with / Cx / Token
\* A frame is one call of With::build or With::rebuild whose callback runs:
\* its mode, its slot ("uninit" for MaybeUninit::uninit(), else the State in
\* it) and whether its Cx is still unused. Every with(..) here has the same
\* State type, so every Token is a Token<State>.
mapVars == <<dom, state, source, aborted, op>>

Pop(s) == SubSeq(s, 1, Len(s) - 1)

\* lib.rs With::build up to the call of the callback.
WithBuild ==
    /\ withCalls < MaxWith
    /\ frames' = Append(frames, [mode |-> "build", slot |-> "uninit", cx |-> TRUE])
    /\ withCalls' = withCalls + 1
    /\ UNCHANGED <<tokens, built, lastRet, mapVars, runVars, floatVars>>

\* lib.rs With::rebuild up to the call of the callback, on a State built.
WithRebuild ==
    /\ withCalls < MaxWith
    /\ built # "none"
    /\ frames' = Append(frames, [mode |-> "rebuild", slot |-> built, cx |-> TRUE])
    /\ withCalls' = withCalls + 1
    /\ UNCHANGED <<tokens, built, lastRet, mapVars, runVars, floatVars>>

\* lib.rs Cx::build on the Cx of frame i, which a running callback holds (its
\* own, or one a closure around it captured): the slot is written in build
\* mode, the State rebuilt in rebuild mode, and a Token comes back.
CxBuild(i) ==
    /\ frames[i].cx
    /\ frames' = [frames EXCEPT ![i].cx = FALSE,
                                ![i].slot = IF frames[i].mode = "build" THEN "S" ELSE @]
    /\ tokens' = tokens + 1
    /\ UNCHANGED <<withCalls, built, lastRet, mapVars, runVars, floatVars>>

\* unsafe { state.assume_init() }: the State written, or on a slot never
\* written whatever the memory holds.
AssumeInit(slot) == IF slot = "uninit" THEN {"S", "garbage"} ELSE {slot}

\* The innermost callback returns a Token it holds; With::build then
\* returns state.assume_init(), With::rebuild returns.
CallbackReturns ==
    /\ frames # <<>>
    /\ tokens > 0
    /\ tokens' = tokens - 1
    /\ frames' = Pop(frames)
    /\ lastRet' = [mode |-> frames[Len(frames)].mode,
                   own |-> ~frames[Len(frames)].cx,
                   written |-> frames[Len(frames)].slot # "uninit"]
    /\ IF frames[Len(frames)].mode = "build"
       THEN built' \in AssumeInit(frames[Len(frames)].slot)
       ELSE built' = built
    /\ UNCHANGED <<withCalls, mapVars, runVars, floatVars>>

\* The innermost callback panics: its frame unwinds, nothing is returned.
CallbackPanics ==
    /\ frames # <<>>
    /\ frames' = Pop(frames)
    /\ UNCHANGED <<tokens, withCalls, built, lastRet, mapVars, runVars, floatVars>>

InitWith ==
    /\ dom = <<>>
    /\ state = NoState
    /\ source = <<>>
    /\ aborted = FALSE
    /\ op = NoOp
    /\ RunIdle
    /\ WithIdle
    /\ FloatIdle

NextWith ==
    \/ WithBuild
    \/ WithRebuild
    \/ \E i \in 1..Len(frames) : CxBuild(i)
    \/ CallbackReturns
    \/ CallbackPanics

SpecWith == InitWith /\ [][NextWith]_vars

\* C4: whenever a callback of with returns its Token, Cx::build was invoked
\* (once) on the Cx passed to that very invocation, and With::build returns
\* a slot that was written, whatever Tokens the callback holds.
C4_TokenMeansOwnBuild ==
    lastRet # NoRet => (lastRet.own /\ lastRet.written)

\* =================================================================== Float
MaxFloat == 2

\* The values of T, and the extra results of a callback of float.
FloatValues == 1..MaxFloat

\* () as a result.
Unit == 0

\* The record of a call that returned: what the Float held before, the
\* argument (the value given to new, written through as_mut, or returned by
\* the callback as the value to store), and the Result returned.
Call(o, before, arg, ok, val) ==
    [op |-> o, before |-> before, arg |-> arg, ok |-> ok, val |-> val,
     prev |-> fret.op]

\* Option::ok_or(PoisonError), as a call record.
OkOr(o, inner, arg) ==
    IF inner = None THEN Call(o, inner, arg, FALSE, 0)
    ELSE Call(o, inner, arg, TRUE, inner[1])

otherVars == <<mapVars, runVars, withVars>>

\* float.rs Float::new
FloatNew(v) ==
    /\ fpc = "none"
    /\ float' = [inner |-> Some(v)]
    /\ fpc' = "idle"
    /\ poisoned' = FALSE
    /\ fret' = Call("new", None, v, TRUE, 0)
    /\ UNCHANGED <<floated, otherVars>>

\* float.rs Float::into_inner: self.inner.ok_or(PoisonError); the Float is
\* consumed.
IntoInner ==
    /\ fpc = "idle"
    /\ fret' = OkOr("into_inner", float.inner, 0)
    /\ float' = [inner |-> None]
    /\ fpc' = "none"
    /\ poisoned' = FALSE
    /\ UNCHANGED <<floated, otherVars>>

\* float.rs Float::as_ref: self.inner.as_ref().ok_or(PoisonError)
AsRef ==
    /\ fpc = "idle"
    /\ fret' = OkOr("as_ref", float.inner, 0)
    /\ UNCHANGED <<float, fpc, floated, poisoned, otherVars>>

\* A slip of as_mut: the reference is to a copy of the value.
AsMutOfCopy(w) ==
    /\ fpc = "idle"
    /\ fret' = OkOr("as_mut", float.inner, w)
    /\ UNCHANGED <<float, fpc, floated, poisoned, otherVars>>

\* float.rs Float::as_mut: self.inner.as_mut().ok_or(PoisonError), and the
\* caller's write of w through the reference it got.
AsMut(w) ==
    /\ fpc = "idle"
    /\ fret' = OkOr("as_mut", float.inner, w)
    /\ float' = IF float.inner = None THEN float ELSE [inner |-> Some(w)]
    /\ UNCHANGED <<fpc, floated, poisoned, otherVars>>

\* A slip of float: the value is taken without the check for None.
FloatCallUnchecked(by) ==
    /\ fpc = "idle"
    /\ floated' = [value |-> float.inner, by |-> by]
    /\ float' = [inner |-> None]
    /\ fpc' = "callback"
    /\ UNCHANGED <<fret, poisoned, otherVars>>

\* float.rs Float::float up to the call of f: self.inner.take()
\* .ok_or(PoisonError)? returns the error, or gives the value to f;
\* float_ is float with the callback |v| (f(v), ()).
FloatCall(by) ==
    /\ fpc = "idle"
    /\ IF float.inner = None
       THEN /\ fret' = Call(by, None, 0, FALSE, 0)
            /\ UNCHANGED <<float, fpc, floated>>
       ELSE /\ floated' = [value |-> float.inner, by |-> by]
            /\ float' = [inner |-> None]
            /\ fpc' = "callback"
            /\ fret' = fret
    /\ UNCHANGED <<poisoned, otherVars>>

\* A slip of float: the value the callback returned is not stored.
CallbackReturnDropped(v2, r) ==
    /\ fpc = "callback"
    /\ fpc' = "idle"
    /\ fret' = Call(floated.by, floated.value, v2, TRUE,
                    IF floated.by = "float" THEN r ELSE Unit)
    /\ floated' = [value |-> None, by |-> "none"]
    /\ UNCHANGED <<float, poisoned, otherVars>>

\* float.rs Float::float after f returned (value, result):
\* self.inner = Some(value); Ok(result).
CallbackReturn(v2, r) ==
    /\ fpc = "callback"
    /\ float' = [inner |-> Some(v2)]
    /\ fpc' = "idle"
    /\ fret' = Call(floated.by, floated.value, v2, TRUE,
                    IF floated.by = "float" THEN r ELSE Unit)
    /\ floated' = [value |-> None, by |-> "none"]
    /\ UNCHANGED <<poisoned, otherVars>>

\* The callback unwinds (and the panic is caught by catch_unwind further
\* out): the value given to it is dropped, nothing is stored, no call
\* returns.
CallbackUnwinds ==
    /\ fpc = "callback"
    /\ fpc' = "idle"
    /\ poisoned' = TRUE
    /\ fret' = Call("unwound", floated.value, 0, FALSE, 0)
    /\ floated' = [value |-> None, by |-> "none"]
    /\ UNCHANGED <<float, otherVars>>

InitFloat ==
    /\ dom = <<>>
    /\ state = NoState
    /\ source = <<>>
    /\ aborted = FALSE
    /\ op = NoOp
    /\ RunIdle
    /\ WithIdle
    /\ FloatIdle

NextFloat ==
    \/ \E v \in FloatValues : FloatNew(v)
    \/ IntoInner
    \/ AsRef
    \/ \E w \in FloatValues : AsMut(w)
    \/ \E by \in {"float", "float_"} : FloatCall(by)
    \/ \E v2 \in FloatValues : \E r \in FloatValues : CallbackReturn(v2, r)
    \/ CallbackUnwinds

SpecFloat == InitFloat /\ [][NextFloat]_vars

\* C11: a Float made by new, and a Float after float / float_ calls that
\* all returned, holds a value; it is empty only while a callback of
\* float / float_ runs.
C11_NonEmptyOutsideCallback ==
    (fpc # "none" /\ ~poisoned) => (float.inner = None <=> fpc = "callback")

\* A float call has returned Ok and the Float holds what the callback gave.
C11_Witness ==
    /\ fpc = "idle"
    /\ ~poisoned
    /\ fret.op = "float"
    /\ fret.ok
    /\ float.inner = Some(fret.arg)

\* C12: once a callback of float / float_ has unwound, the Float stays
\* empty, every later into_inner, as_ref, as_mut, float and float_ returns
\* PoisonError, and float / float_ do not call their callback.
C12_PoisonedForGood ==
    /\ [](poisoned => (float.inner = None /\ fpc = "idle"))
    /\ [][(poisoned /\ poisoned') =>
             (float'.inner = None /\ fpc' = "idle" /\ ~fret'.ok)]_vars
    /\ [][(poisoned /\ ~poisoned') =>
             (fpc' = "none" /\ fret'.op = "into_inner" /\ ~fret'.ok)]_vars

\* A float_ call on a poisoned Float has returned the error.
C12_Witness ==
    /\ poisoned
    /\ fret.op = "float_"
    /\ ~fret.ok
    /\ fret.prev = "as_mut"

MaxCycles == 2

Siblings == <<Text(1, "<"), Text(2, ">")>>

\* The position of the build: insert_before is the sibling after.
Before == 2

\* The values of Option<V>: None, or Some of an entry view.
Options == {None} \cup {Some([k |-> k, v |-> v]) : k \in Keys, v \in Values}

\* The Data the actions of the entry view work on.
OptModels == [Keys -> Values]

\* option.rs build: both markers are made, then start is inserted.
OptionMarkers(c, before) ==
    LET start == Fresh(c.used)
        end == Fresh(c.used \cup {start})
    IN [dom |-> Insert(c.dom, Comment(start, "{"), before),
        used |-> c.used \cup {start, end},
        start |-> start, end |-> end]

\* option.rs build: cx.position.insert(&end); OptionState { state, start, end }
OptionBuildEnd(mk, child, before) ==
    [dom |-> Insert(child.dom, Comment(mk.end, "}"), before),
     used |-> child.used,
     st |-> [state |-> child.st, start |-> mk.start, end |-> mk.end]]

OptionChild(b) == [dom |-> b.dom, used |-> b.used, st |-> Some(b.st)]

\* option.rs build: let state = self.map(|b| b.build(cx))
OptionBuildChild(mk, before, o) ==
    OptionBuildEnd(mk,
                   IF o = None THEN [dom |-> mk.dom, used |-> mk.used, st |-> None]
                   ELSE OptionChild(ItemBuild(mk, before, o[1].k, o[1].v)),
                   before)

\* option.rs <Option<V> as Builder>::build
OptionBuild(c, before, o) == OptionBuildChild(OptionMarkers(c, before), before, o)

\* A slip of the (None, None) arm: it clears, and up to the wrong end.
OptionStayAbsentCleared(d, st) ==
    [dom |-> clear(d, st.start, NULL), st |-> st]

\* option.rs rebuild, (None, None) => {}
OptionStayAbsent(d, st) ==
    [dom |-> d, st |-> st]

\* A slip of the (None, Some(_)) arm: the state goes, its nodes stay.
OptionToAbsentLeaky(d, st) ==
    [dom |-> d, st |-> [st EXCEPT !.state = None]]

\* A slip of the (None, Some(_)) arm: the start marker is removed as well.
OptionToAbsentUnmarked(d, st) ==
    [dom |-> RemoveChild(clear(d, st.start, st.end), st.start),
     st |-> [st EXCEPT !.state = None]]

\* option.rs rebuild, (None, Some(_)): state.state = None; clear(start, end)
OptionToAbsent(d, st) ==
    [dom |-> clear(d, st.start, st.end), st |-> [st EXCEPT !.state = None]]

OptionSet(st, b) == [dom |-> b.dom, st |-> [st EXCEPT !.state = Some(b.st)]]

\* A slip of the (Some(b), None) arm: the child is built at the end of the
\* parent.
OptionToPresentAppended(d, used, st, o) ==
    OptionSet(st, ItemBuild([dom |-> d, used |-> used], NULL, o[1].k, o[1].v))

\* option.rs rebuild, (Some(b), None): b.build before the end marker.
OptionToPresent(d, used, st, o) ==
    OptionSet(st, ItemBuild([dom |-> d, used |-> used], st.end, o[1].k, o[1].v))

\* option.rs rebuild, (Some(b), Some(state)) => b.rebuild(cx, state)
OptionStayPresent(d, st, o) ==
    OptionSet(st, ItemRebuild(d, st.state[1], o[1].k, o[1].v))

\* option.rs <Option<V> as Builder>::rebuild
OptionRebuild(d, used, st, o) ==
    IF o = None /\ st.state = None THEN OptionStayAbsent(d, st)
    ELSE IF o = None THEN OptionToAbsent(d, st)
    ELSE IF st.state = None THEN OptionToPresent(d, used, st, o)
    ELSE OptionStayPresent(d, st, o)

\* The run of the tuple state of the entry view: the OnState takes its
\* event and runs its action on it.
ItemRun(ist, m) ==
    IF ist.on.event = NULL THEN [st |-> Some(ist), model |-> m, trace |-> <<>>]
    ELSE [st |-> Some([ist EXCEPT !.on.event = NULL]),
          model |-> ApplyAction(m, ist.on.action).model,
          trace |-> <<ist.on.action>>]

\* option.rs OptionState::run
OptionRun(st, m) ==
    IF st.state = None THEN [st |-> None, model |-> m, trace |-> <<>>]
    ELSE ItemRun(st.state[1], m)

\* Every object name an OptionState refers to, with the nodes of the DOM.
OptUsed(d, st) ==
    Ids(d) \cup {st.start, st.end}
           \cup (IF st.state = None THEN {} ELSE {st.state[1].on.handle})

\* The history of a step: its kind, the source before it, and how many
\* times the child was built so far.
OptOp(kind, built1) ==
    [kind |-> kind, from |-> source,
     cycles |-> IF op.kind = "none" THEN (IF built1 THEN 1 ELSE 0)
                ELSE IF built1 /\ op.cycles < MaxCycles THEN op.cycles + 1
                ELSE op.cycles]

optRest == <<aborted, pc, registered, queued, syncRet, result, hist, arrived,
             withVars, floatVars>>

InitOpt ==
    /\ dom = Siblings
    /\ state = NoState
    /\ source = None
    /\ aborted = FALSE
    /\ op = NoOp
    /\ RunIdle
    /\ WithIdle
    /\ FloatIdle

\* Builder::build of the Option at the position.
OptBuild(o) ==
    /\ state = NoState
    /\ \E r \in {OptionBuild([dom |-> dom, used |-> Ids(dom)], Before, o)} :
          /\ dom' = r.dom
          /\ state' = r.st
    /\ source' = o
    /\ model' \in OptModels
    /\ op' = OptOp("build", o # None)
    /\ UNCHANGED <<trace, overwrote, optRest>>

\* Builder::rebuild of the Option.
OptRebuild(o) ==
    /\ state # NoState
    /\ \E r \in {OptionRebuild(dom, OptUsed(dom, state), state, o)} :
          /\ dom' = r.dom
          /\ state' = r.st
    /\ source' = o
    /\ op' = OptOp("rebuild", o # None /\ source = None)
    /\ UNCHANGED <<model, trace, overwrote, optRest>>

\* The listener of the child's handler fires: cell.put(e).
OptFire ==
    /\ state # NoState
    /\ state.state # None
    /\ state' = [state EXCEPT !.state[1].on.event = EV]
    /\ overwrote' = (overwrote \/ state.state[1].on.event # NULL)
    /\ op' = OptOp("fire", FALSE)
    /\ UNCHANGED <<dom, source, model, trace, optRest>>

\* State::run of the OptionState on the Data.
OptRun ==
    /\ state # NoState
    /\ \E r \in {OptionRun(state, model)} :
          /\ state' = [state EXCEPT !.state = r.st]
          /\ model' = r.model
          /\ trace' = r.trace
    /\ op' = OptOp("run", FALSE)
    /\ UNCHANGED <<dom, source, overwrote, optRest>>

NextOpt ==
    \/ \E o \in Options : OptBuild(o)
    \/ \E o \in Options : OptRebuild(o)
    \/ OptFire
    \/ OptRun

SpecOpt == InitOpt /\ [][NextOpt]_vars

\* The children the parent is to have: the siblings around the markers and,
\* between the markers, the two text nodes of the child when present.
OptChildNodes(st) ==
    IF st.state = None THEN <<>>
    ELSE <<Text(st.state[1].key.node, to_string(st.state[1].key.value)),
           Text(st.state[1].val.node, to_string(st.state[1].val.value))>>

OptExpected(st) ==
    <<Siblings[1], Comment(st.start, "{")>> \o OptChildNodes(st)
        \o <<Comment(st.end, "}"), Siblings[2]>>

\* C14: from a build with None, through Some(x), None, Some(y) and any
\* number of further toggles: when the source is None the parent holds the
\* baseline (the two markers, nothing of an earlier child), when it is
\* Some(y) exactly the two markers and the content built from y.
C14_ToggleLeavesNoNode ==
    state # NoState =>
        /\ NoDup(dom)
        /\ source = None =>
              (Len(dom) = Len(Siblings) + 2 /\ dom = OptExpected(state))
        /\ source # None =>
              /\ Len(dom) = Len(Siblings) + 4
              /\ dom = OptExpected(state)
              /\ state.state # None
              /\ state.state[1].key.value = source[1].k
              /\ state.state[1].val.value = source[1].v

\* The child is present for the second time: the source just rendered
\* follows a None, and a child had been built and cleared before it.
C14_Witness ==
    /\ op.kind = "rebuild"
    /\ op.from = None
    /\ source # None
    /\ op.cycles = 2

\* The child of a present state st is gone from d1, all of it and nothing
\* else, and d1 is d0 without the nodes between the markers.
OptCleared(d0, st, d1, st1) ==
    /\ st1.state = None
    /\ st1.start = st.start
    /\ st1.end = st.end
    /\ IndexOf(d1, st.end) = IndexOf(d1, st.start) + 1
    /\ Ids(d0) \ Ids(d1) = {st.state[1].key.node, st.state[1].val.node}
    /\ Surviving(d0, Ids(d1)) = Surviving(d1, Ids(d1))

\* C15 as stated: a rebuild from Some to None destroys the child state,
\* removes every node strictly between the markers, and removes the start
\* marker from the parent.
C15_ToAbsentRemovesStartMarker ==
    [][(op'.kind = "rebuild" /\ state # NoState /\ source # None /\ source' = None) =>
           /\ state'.state = None
           /\ Ids(dom) \ Ids(dom') =
                  {state.state[1].key.node, state.state[1].val.node, state.start}]_vars

\* C15 as amended: a rebuild from Some to None destroys the child state and
\* removes every node strictly between the markers; both markers stay
\* children of the parent, adjacent, and no other node is touched.
C15_ToAbsentKeepsMarkers ==
    [][(op'.kind = "rebuild" /\ state # NoState /\ source # None /\ source' = None) =>
           /\ {state.start, state.end} \subseteq Ids(dom')
           /\ OptCleared(dom, state, dom', state')]_vars

\* A rebuild has taken a present state to absent.
C15_Witness ==
    /\ op.kind = "rebuild"
    /\ op.from # None
    /\ source = None
    /\ state.state = None

\* The nodes of d strictly between the nodes start and end.
Between(d, start, end) ==
    SubSeq(d, IndexOf(d, start) + 1, IndexOf(d, end) - 1)

\* C16: after build and any rebuilds both markers are children of the
\* parent, start before end; absent, they are adjacent; present, exactly the
\* nodes of the child lie between them.
C16_MarkersBracketChild ==
    state # NoState =>
        /\ {state.start, state.end} \subseteq Ids(dom)
        /\ IndexOf(dom, state.start) < IndexOf(dom, state.end)
        /\ state.state = None =>
              IndexOf(dom, state.end) = IndexOf(dom, state.start) + 1
        /\ state.state # None =>
              Between(dom, state.start, state.end) = OptChildNodes(state)

\* A present state whose child was rebuilt in place with another value.
C16_Witness ==
    /\ op.kind = "rebuild"
    /\ op.from # None
    /\ source # None
    /\ op.from # source
    /\ state.state # None

\* C17: a rebuild from absent to absent changes neither the state nor the
\* children; a run pass on an absent state runs no action and leaves the
\* Data and the state as they are.
C17_AbsentIsNoOp ==
    [][/\ (op'.kind = "rebuild" /\ state # NoState /\ source = None /\ source' = None) =>
              (dom' = dom /\ state' = state /\ model' = model)
       /\ (op'.kind = "run" /\ state # NoState /\ state.state = None) =>
              (dom' = dom /\ state' = state /\ model' = model /\ trace' = <<>>)]_vars

\* A run pass has run on an absent state that had been present before.
C17_Witness ==
    /\ op.kind = "run"
    /\ state.state = None
    /\ op.cycles >= 1
    /\ trace = <<>>

\* ================================================================= AnyView
\* The type-erased wrapper, any(view), over views of two State types:
\* display(v), with State DisplayState, and the entry view (display(k),
\* display(v), on_(..)), with a tuple State. It is built at the position
\* between the two siblings.
Views ==
    {[type |-> "display", k |-> 0, v |-> v] : v \in Values}
        \cup {[type |-> "item", k |-> k, v |-> v] : k \in Keys, v \in Values}

\* Box::new(state): the State with its concrete type (its TypeId).
Boxed(t, b) == [dom |-> b.dom, used |-> b.used, st |-> [type |-> t, st |-> b.st]]

\* self.inner.build(cx) of the view wrapped.
InnerBuild(c, before, view) ==
    IF view.type = "display" THEN Boxed("display", DisplayBuild(c, before, view.v))
    ELSE Boxed("item", ItemBuild(c, before, view.k, view.v))

\* self.inner.rebuild(cx, state) of the view wrapped.
InnerRebuild(d, ist, view) ==
    IF view.type = "display" THEN DisplayRebuild(d, ist, view.v)
    ELSE ItemRebuild(d, ist, view.k, view.v)

\* any.rs build: both markers are made, then start is inserted.
AnyMarkers(c, before) ==
    LET start == Fresh(c.used)
        end == Fresh(c.used \cup {start})
    IN [dom |-> Insert(c.dom, Comment(start, "{"), before),
        used |-> c.used \cup {start, end},
        start |-> start, end |-> end]

\* any.rs build: cx.position.insert(&end); AnyState { state, start, end }
AnyBuildEnd(mk, child, before) ==
    [dom |-> Insert(child.dom, Comment(mk.end, "}"), before),
     used |-> child.used,
     st |-> [state |-> child.st, start |-> mk.start, end |-> mk.end]]

AnyBuildInner(mk, before, view) ==
    AnyBuildEnd(mk, InnerBuild(mk, before, view), before)

\* any.rs AnyView::build
AnyBuild(c, before, view) == AnyBuildInner(AnyMarkers(c, before), before, view)

\* state.state = Box::new(..): the box holds the State built.
AnyBoxed(st, b) == [dom |-> b.dom, st |-> [st EXCEPT !.state = b.st]]

\* The State in the box was rebuilt in place.
AnyInPlace(st, b) == [dom |-> b.dom, st |-> [st EXCEPT !.state.st = b.st]]

\* A slip of the None arm: the old content is not cleared.
AnyReplaceUncleared(d, used, st, view) ==
    AnyBoxed(st, InnerBuild([dom |-> d, used |-> used], st.end, view))

\* any.rs rebuild, downcast_mut gave None: clear(start, end), then build
\* before the end marker; the old State is dropped when the new is stored.
AnyReplace(d, used, st, view) ==
    AnyBoxed(st, InnerBuild([dom |-> clear(d, st.start, st.end), used |-> used],
                            st.end, view))

\* A slip of the Some arm: the State is built anew all the same.
AnyDelegateRebuilt(d, used, st, view) ==
    AnyBoxed(st, InnerBuild([dom |-> clear(d, st.start, st.end), used |-> used],
                            st.end, view))

\* any.rs rebuild, downcast_mut gave Some(state): self.inner.rebuild
AnyDelegate(d, used, st, view) ==
    AnyInPlace(st, InnerRebuild(d, st.state.st, view))

\* any.rs AnyView::rebuild: downcast_mut::<V::State>() on the boxed State.
AnyRebuild(d, used, st, view) ==
    IF st.state.type = view.type THEN AnyDelegate(d, used, st, view)
    ELSE AnyReplace(d, used, st, view)

\* The nodes and the listener a boxed State holds.
BoxedNodes(b) ==
    IF b.type = "display" THEN {b.st.node} ELSE {b.st.key.node, b.st.val.node}

BoxedRefs(b) ==
    BoxedNodes(b) \cup (IF b.type = "display" THEN {} ELSE {b.st.on.handle})

\* Every object name an AnyState refers to, with the nodes of the DOM.
AnyUsed(d, st) == Ids(d) \cup {st.start, st.end} \cup BoxedRefs(st.state)

InitAny ==
    /\ dom = Siblings
    /\ state = NoState
    /\ source = [type |-> "none", k |-> 0, v |-> 0]
    /\ aborted = FALSE
    /\ op = NoOp
    /\ RunIdle
    /\ WithIdle
    /\ FloatIdle

\* Builder::build of the wrapper at the position.
AnyBuildStep(view) ==
    /\ state = NoState
    /\ \E r \in {AnyBuild([dom |-> dom, used |-> Ids(dom)], Before, view)} :
          /\ dom' = r.dom
          /\ state' = r.st
    /\ source' = view
    /\ op' = [kind |-> "build", from |-> source]
    /\ UNCHANGED <<aborted, runVars, withVars, floatVars>>

\* Builder::rebuild of the wrapper.
AnyRebuildStep(view) ==
    /\ state # NoState
    /\ \E r \in {AnyRebuild(dom, AnyUsed(dom, state), state, view)} :
          /\ dom' = r.dom
          /\ state' = r.st
    /\ source' = view
    /\ op' = [kind |-> "rebuild", from |-> source]
    /\ UNCHANGED <<aborted, runVars, withVars, floatVars>>

NextAny ==
    \/ \E view \in Views : AnyBuildStep(view)
    \/ \E view \in Views : AnyRebuildStep(view)

SpecAny == InitAny /\ [][NextAny]_vars

\* The nodes a boxed State shows, in order.
BoxedContent(b) ==
    IF b.type = "display" THEN <<Text(b.st.node, to_string(b.st.value))>>
    ELSE <<Text(b.st.key.node, to_string(b.st.key.value)), Text(b.st.val.node, to_string(b.st.val.value))>>

\* The content a view asks for.
ViewContent(view) ==
    IF view.type = "display" THEN <<to_string(view.v)>>
    ELSE <<to_string(view.k), to_string(view.v)>>

RECURSIVE DataOf(_)
DataOf(d) == IF d = <<>> THEN <<>> ELSE <<Head(d).data>> \o DataOf(Tail(d))

\* C18: a rebuild with a view of another State type than the boxed one
\* removes all nodes between the markers and builds a fresh State from the
\* view between the same two markers; the box then holds a State of the
\* view's type and no node of the old content remains.
C18_TypeSwitchReplaces ==
    [][(op'.kind = "rebuild" /\ state # NoState /\ source'.type # state.state.type) =>
           /\ state'.state.type = source'.type
           /\ state'.start = state.start /\ state'.end = state.end
           /\ {state.start, state.end} \subseteq Ids(dom')
           /\ BoxedNodes(state.state) \cap Ids(dom') = {}
           /\ BoxedRefs(state'.state) \cap AnyUsed(dom, state) = {}
           /\ Between(dom', state.start, state.end) = BoxedContent(state'.state)
           /\ DataOf(BoxedContent(state'.state)) = ViewContent(source')
           /\ Ids(dom) \ Ids(dom') = BoxedNodes(state.state)
           /\ Surviving(dom, Ids(dom')) = Surviving(dom', Ids(dom))]_vars

\* The wrapper held an entry view and was rebuilt with a display.
C18_Witness ==
    /\ op.kind = "rebuild"
    /\ op.from.type = "item"
    /\ source.type = "display"
    /\ state.state.type = "display"

RECURSIVE IdsOf(_)
IdsOf(d) == IF d = <<>> THEN <<>> ELSE <<Head(d).id>> \o IdsOf(Tail(d))

\* C19: a rebuild with a view of the State type boxed rebuilds that very
\* State in place: no node is removed or added, no State is built, both
\* markers stay where they are.
C19_SameTypeDelegates ==
    [][(op'.kind = "rebuild" /\ state # NoState /\ source'.type = state.state.type) =>
           /\ IdsOf(dom') = IdsOf(dom)
           /\ state'.start = state.start /\ state'.end = state.end
           /\ state'.state.type = state.state.type
           /\ BoxedRefs(state'.state) = BoxedRefs(state.state)
           /\ Between(dom', state.start, state.end) = BoxedContent(state'.state)
           /\ DataOf(BoxedContent(state'.state)) = ViewContent(source')]_vars

\* The wrapper held an entry view and was rebuilt with another entry view.
C19_Witness ==
    /\ op.kind = "rebuild"
    /\ op.from.type = "item"
    /\ source.type = "item"
    /\ op.from # source

\* =================================================================== slice
\* The indexed reconciler, slice(&data, |cx, i, v| cx.build((display(i),
\* display(v), on_(.., toggle i)))), built at the position between the two
\* siblings. Entry i of the state is data[i + 1] here.
MaxLen == 2
MaxLeak == 1

RECURSIVE SeqsUpTo(_)
SeqsUpTo(n) ==
    IF n = 0 THEN {<<>>}
    ELSE SeqsUpTo(n - 1) \cup [1..n -> Values]

\* The source slices: &[T] with T = Values.
Slices == SeqsUpTo(MaxLen)

RECURSIVE SliceEntries(_, _, _, _, _)
RECURSIVE SliceEntriesNext(_, _, _, _, _)
\* slice.rs: self.data.iter().enumerate().skip(i).map(|(i, v)| Entry { .. }),
\* collected after the entries acc: a header at the position, then
\* with(|cx| render_item(cx, i, v)).build.
SliceEntries(c, before, xs, i, acc) ==
    IF i >= Len(xs) THEN [dom |-> c.dom, used |-> c.used, st |-> acc]
    ELSE SliceEntriesNext(EntryBuild(c, before, i, xs[i + 1]), before, xs, i, acc)

SliceEntriesNext(e, before, xs, i, acc) ==
    SliceEntries(e, before, xs, i + 1, Append(acc, e.st))

\* slice.rs SliceBuilder::build
SliceBuild(c, before, xs) ==
    FooterInsert(SliceEntries(c, before, xs, 0, <<>>), before)

\* A slip of the zip loop: the rebuilt slot has its header moved to the end
\* of the parent.
SlicePairSetMoved(r, i, e) ==
    [dom |-> Insert(RemoveChild(e.dom, r.data[i + 1].header),
                    Comment(r.data[i + 1].header, "|"), NULL),
     data |-> [r.data EXCEPT ![i + 1].state = e.st]]

\* slice.rs rebuild: the entry's state after its rebuild.
SlicePairSet(r, i, e) ==
    [dom |-> e.dom, data |-> [r.data EXCEPT ![i + 1].state = e.st]]

RECURSIVE SlicePairs(_, _, _)
\* slice.rs rebuild: for (i, (v, entry)) in data.iter().zip(state.data
\* .iter_mut()).enumerate() the entry is rebuilt.
SlicePairs(r, xs, i) ==
    IF i >= Len(xs) \/ i >= Len(r.data) THEN r
    ELSE SlicePairs(SlicePairSet(r, i, ItemRebuild(r.dom, r.data[i + 1].state,
                                                   i, xs[i + 1])),
                    xs, i + 1)

SlicePack(st, e) == [dom |-> e.dom, st |-> [st EXCEPT !.data = e.st]]

\* A slip of the Greater arm: the new entries go to the end of the parent.
SliceGrowAtEnd(r, used, st, xs) ==
    SlicePack(st, SliceEntries([dom |-> r.dom, used |-> used], NULL, xs,
                               Len(r.data), r.data))

\* slice.rs rebuild, Ordering::Greater: state.data.extend(..) with the
\* entries built before the footer.
SliceGrow(r, used, st, xs) ==
    SlicePack(st, SliceEntries([dom |-> r.dom, used |-> used], st.footer, xs,
                               Len(r.data), r.data))

\* slice.rs rebuild, Ordering::Less: clear from the header of the first
\* surplus entry to the footer, then truncate.
SliceShrink(r, st, xs) ==
    [dom |-> clear(r.dom, r.data[Len(xs) + 1].header, st.footer),
     st |-> [st EXCEPT !.data = SubSeq(r.data, 1, Len(xs))]]

\* slice.rs rebuild: match self.data.len().cmp(&state.data.len())
SliceResize(r, used, st, xs) ==
    IF Len(xs) = Len(r.data) THEN [dom |-> r.dom, st |-> [st EXCEPT !.data = r.data]]
    ELSE IF Len(xs) > Len(r.data) THEN SliceGrow(r, used, st, xs)
    ELSE SliceShrink(r, st, xs)

\* slice.rs SliceBuilder::rebuild
SliceRebuild(d, used, st, xs) ==
    SliceResize(SlicePairs([dom |-> d, data |-> st.data], xs, 0), used, st, xs)

\* The objects entry e refers to.
EntryRefs(e) == EntryNodes(e) \cup {e.state.on.handle}

\* Every object name a SliceState refers to, with the nodes of the DOM.
SliceUsed(d, st) ==
    Ids(d) \cup {st.footer} \cup UNION {EntryRefs(st.data[i]) : i \in 1..Len(st.data)}

\* The children of the parent that no entry and no marker of the state
\* accounts for.
Leaked(d, st) ==
    Ids(d) \ ({st.footer, Siblings[1].id, Siblings[2].id}
                 \cup UNION {EntryNodes(st.data[i]) : i \in 1..Len(st.data)})

InitSlice ==
    /\ dom = Siblings
    /\ state = NoState
    /\ source = <<>>
    /\ aborted = FALSE
    /\ op = NoOp
    /\ RunIdle
    /\ WithIdle
    /\ FloatIdle

\* Builder::build of the slice at the position.
SliceBuildStep(xs) ==
    /\ state = NoState
    /\ \E r \in {SliceBuild([dom |-> dom, used |-> Ids(dom)], Before, xs)} :
          /\ dom' = r.dom
          /\ state' = r.st
    /\ source' = xs
    /\ op' = [kind |-> "build", from |-> source]
    /\ UNCHANGED <<aborted, runVars, withVars, floatVars>>

\* Builder::rebuild of the slice; the renders that shrink are counted out
\* once the parent holds MaxLeak nodes the state does not account for.
SliceRebuildStep(xs) ==
    /\ state # NoState
    /\ Len(xs) < Len(state.data) => Cardinality(Leaked(dom, state)) < MaxLeak
    /\ \E r \in {SliceRebuild(dom, SliceUsed(dom, state), state, xs)} :
          /\ dom' = r.dom
          /\ state' = r.st
    /\ source' = xs
    /\ op' = [kind |-> "rebuild", from |-> source]
    /\ UNCHANGED <<aborted, runVars, withVars, floatVars>>

NextSlice ==
    \/ \E xs \in Slices : SliceBuildStep(xs)
    \/ \E xs \in Slices : SliceRebuildStep(xs)

SpecSlice == InitSlice /\ [][NextSlice]_vars

RECURSIVE SliceRegion(_, _, _)
\* The children the entries i + 1 .. of data show, then the footer.
SliceRegion(data, i, footer) ==
    IF i >= Len(data) THEN <<Comment(footer, "|")>>
    ELSE <<Comment(data[i + 1].header, "|"),
           Text(data[i + 1].state.key.node, to_string(data[i + 1].state.key.value)),
           Text(data[i + 1].state.val.node, to_string(data[i + 1].state.val.value))>>
         \o SliceRegion(data, i + 1, footer)

\* What C20 says of one rebuild with source xs, from (d0, st0) to (d1, st1).
SliceStep(d0, st0, d1, st1, xs) ==
    LET m == Len(st0.data)
        n == Len(xs)
    IN /\ Len(st1.data) = n
       /\ st1.footer = st0.footer
       /\ \A i \in 1..n :
             /\ st1.data[i].state.key.value = i - 1
             /\ st1.data[i].state.val.value = xs[i]
       /\ \A i \in 1..(IF n < m THEN n ELSE m) : SameEntry(st1.data[i], st0.data[i])
       /\ \A i \in (m + 1)..n : EntryRefs(st1.data[i]) \cap SliceUsed(d0, st0) = {}
       /\ n > m =>
             /\ SubSeq(d1, IndexOf(d1, st1.data[m + 1].header),
                       IndexOf(d1, st1.footer)) = SliceRegion(st1.data, m, st1.footer)
             /\ IdsOf(SubSeq(d1, 1, IndexOf(d1, st1.data[m + 1].header) - 1))
                    = IdsOf(SubSeq(d0, 1, IndexOf(d0, st0.footer) - 1))

\* C20: after a rebuild with a source of length n over a state of m
\* entries the state has n entries; every position below min(n, m) holds
\* the state it held, rebuilt with the element now there; when n > m the
\* positions m .. n-1 hold newly built states, in source order, each behind
\* a new header, all of them inserted before the footer.
C20_SliceRebuildByPosition ==
    [][(op'.kind = "rebuild" /\ state # NoState) =>
           SliceStep(dom, state, dom', state', source')]_vars

\* A rebuild has changed the element of a kept position and appended more.
C20_Witness ==
    /\ op.kind = "rebuild"
    /\ Len(op.from) = 1
    /\ Len(source) > 1
    /\ source[1] # op.from[1]

\* C21: after every build and rebuild of the slice, whatever grew and
\* shrank before, the children between the two siblings are exactly a
\* header and the content of each live entry, in order, then the footer
\* (so a grow followed by the shrink back restores the children).
C21_RegionIsLiveEntries ==
    state # NoState =>
        dom = <<Siblings[1]>> \o SliceRegion(state.data, 0, state.footer)
                  \o <<Siblings[2]>>

RECURSIVE Without(_, _)
\* The children of d that are not among the nodes ids.
Without(d, ids) ==
    IF d = <<>> THEN <<>>
    ELSE IF Head(d).id \in ids THEN Without(Tail(d), ids)
    ELSE <<Head(d)>> \o Without(Tail(d), ids)

\* What does hold of the slice: the region is the live entries and the
\* footer once the headers a shrink left behind are set aside, and those
\* are comments with the data of a header.
SliceRegionButLeaked ==
    state # NoState =>
        /\ Without(dom, Leaked(dom, state))
               = <<Siblings[1]>> \o SliceRegion(state.data, 0, state.footer)
                     \o <<Siblings[2]>>
        /\ \A i \in 1..Len(dom) :
               dom[i].id \in Leaked(dom, state) => dom[i] = Comment(dom[i].id, "|")

\* Every shrink leaves exactly the header of the first surplus entry.
ShrinkLeavesHeader ==
    [][(op'.kind = "rebuild" /\ state # NoState /\ Len(source') < Len(state.data)) =>
           /\ state.data[Len(source') + 1].header \in Leaked(dom', state')
           /\ \A i \in (Len(source') + 1)..Len(state.data) :
                 {state.data[i].state.key.node, state.data[i].state.val.node}
                     \cap Ids(dom') = {}
           /\ \A i \in (Len(source') + 2)..Len(state.data) :
                 state.data[i].header \notin Ids(dom')]_vars

\* C22: a rebuild with a source as long as the state moves, inserts and
\* removes nothing: the children are the same nodes in the same order,
\* every slot keeps its header, nodes and state, the footer stays, and each
\* slot shows the element now at its position.
C22_EqualLengthNoStructuralChange ==
    [][(op'.kind = "rebuild" /\ state # NoState /\ Len(source') = Len(state.data)) =>
           /\ IdsOf(dom') = IdsOf(dom)
           /\ \A i \in 1..Len(dom) : dom'[i].kind = dom[i].kind
           /\ state'.footer = state.footer
           /\ Len(state'.data) = Len(state.data)
           /\ \A i \in 1..Len(state.data) :
                 /\ SameEntry(state'.data[i], state.data[i])
                 /\ state'.data[i].state.val.value = source'[i]
                 /\ dom'[IndexOf(dom', state.data[i].state.val.node)].data
                        = to_string(source'[i])]_vars

\* A rebuild with the two elements of the source swapped.
C22_Witness ==
    /\ op.kind = "rebuild"
    /\ Len(op.from) = 2
    /\ Len(source) = 2
    /\ op.from[1] # op.from[2]
    /\ source = <<op.from[2], op.from[1]>>

\* ============================================================== attributes
\* The component (attr(K1, v1), attr(K2, v2)) with values of the type
\* Option<&'static str>, on one element. Here dom is that element (its
\* attributes), state the pair of AttrStates and source the pair of values
\* last rendered; op.calls lists the attribute calls of the last render.

\* The static strings of the program by address: two of them have the same
\* text.
Statics == <<"a", "a", "b">>

AttrNames == <<"href", "title">>

\* Option<&'static str>: None or Some(address).
AttrValues == {None} \cup {Some(p) : p \in 1..Len(Statics)}

\* The text of a value, None for an absent one: what with_str hands on.
with_str(v) == IF v = None THEN None ELSE Some(Statics[v[1]])

\* attr/types.rs AttrValue::changed for Option<V> over &'static str, whose
\* changed is !std::ptr::eq(*self, *saved).
changed(v, saved) ==
    IF v = None /\ saved = None THEN FALSE
    ELSE IF v = None \/ saved = None THEN TRUE
    ELSE v[1] # saved[1]

\* parent.set_attribute(name, value), value an Option here: None for
\* parent.remove_attribute(name); the call is noted.
AttrCall(c, name, text) ==
    [el |-> [c.el EXCEPT ![name] = text],
     calls |-> Append(c.calls, [call |-> IF text = None THEN "remove" ELSE "set",
                                name |-> name, value |-> text])]

\* attr/types.rs AttrState::build
AttrStateBuild(c, name, v) ==
    [c |-> IF with_str(v) # None THEN AttrCall(c, name, with_str(v)) ELSE c,
     st |-> [value |-> v]]

\* attr/types.rs AttrState::rebuild; the state is left as it was.
AttrStateRebuild(c, st, name, v) ==
    [c |-> IF ~changed(v, st.value) THEN c ELSE AttrCall(c, name, with_str(v)),
     st |-> st]

\* lib.rs tuple_builder! build over (attr, attr): left, then right.
AttrsBuild(el, vs) ==
    LET a == AttrStateBuild([el |-> el, calls |-> <<>>], AttrNames[1], vs[1])
        b == AttrStateBuild(a.c, AttrNames[2], vs[2])
    IN [el |-> b.c.el, calls |-> b.c.calls, st |-> <<a.st, b.st>>]

\* lib.rs tuple_builder! rebuild over (attr, attr).
AttrsRebuild(el, st, vs) ==
    LET a == AttrStateRebuild([el |-> el, calls |-> <<>>], st[1], AttrNames[1], vs[1])
        b == AttrStateRebuild(a.c, st[2], AttrNames[2], vs[2])
    IN [el |-> b.c.el, calls |-> b.c.calls, st |-> <<a.st, b.st>>]

\* A new element, without attributes, and nothing built.
InitAttr ==
    /\ dom = [n \in Range(AttrNames) |-> None]
    /\ state = NoState
    /\ source = <<None, None>>
    /\ aborted = FALSE
    /\ op = NoOp
    /\ RunIdle
    /\ WithIdle
    /\ FloatIdle

AttrBuildStep(vs) ==
    /\ state = NoState
    /\ \E r \in {AttrsBuild(dom, vs)} :
          /\ dom' = r.el
          /\ state' = r.st
          /\ op' = [kind |-> "build", from |-> source, calls |-> r.calls]
    /\ source' = vs
    /\ UNCHANGED <<aborted, runVars, withVars, floatVars>>

AttrRebuildStep(vs) ==
    /\ state # NoState
    /\ \E r \in {AttrsRebuild(dom, state, vs)} :
          /\ dom' = r.el
          /\ state' = r.st
          /\ op' = [kind |-> "rebuild", from |-> source, calls |-> r.calls]
    /\ source' = vs
    /\ UNCHANGED <<aborted, runVars, withVars, floatVars>>

NextAttr ==
    \/ \E vs \in AttrValues \X AttrValues : AttrBuildStep(vs)
    \/ \E vs \in AttrValues \X AttrValues : AttrRebuildStep(vs)

SpecAttr == InitAttr /\ [][NextAttr]_vars

\* The calls of the last render on the attribute name.
CallsOn(name) == {i \in 1..Len(op.calls) : op.calls[i].name = name}

\* C23: a rebuild with a value equal to the one last built or rebuilt into
\* the state calls neither set_attribute nor remove_attribute, whatever
\* the rebuilds before it.
C23_EqualValueNoAttributeCall ==
    op.kind = "rebuild" =>
        \A i \in 1..Len(AttrNames) :
            with_str(source[i]) = with_str(op.from[i]) => CallsOn(AttrNames[i]) = {}

\* The same for the very same value (the same address, or None twice).
SameValueNoAttributeCall ==
    op.kind = "rebuild" =>
        \A i \in 1..Len(AttrNames) :
            source[i] = op.from[i] => CallsOn(AttrNames[i]) = {}

\* What the code does: the value a rebuild is compared with is the one the
\* state was built with; that very value brings no call.
BuiltValueNoAttributeCall ==
    [][(op'.kind = "rebuild" /\ state # NoState) =>
           /\ state' = state
           /\ \A i \in 1..Len(AttrNames) :
                 source'[i] = state[i].value =>
                     \A j \in 1..Len(op'.calls) : op'.calls[j].name # AttrNames[i]]_vars

\* The element shows the value last rendered.
AttributeShowsLastValue ==
    state # NoState =>
        \A i \in 1..Len(AttrNames) : dom[AttrNames[i]] = with_str(source[i])

\* ================================================================= display
\* The component display(model.count) of the counter, built at the
\* position between the two siblings; source is the count last rendered.
MaxCount == 10

\* model.count: usize
Counts == 0..MaxCount

InitDisplay ==
    /\ dom = Siblings
    /\ state = NoState
    /\ source = 0
    /\ aborted = FALSE
    /\ op = NoOp
    /\ RunIdle
    /\ WithIdle
    /\ FloatIdle

\* Display::build at the position.
DisplayBuildStep(v) ==
    /\ state = NoState
    /\ \E r \in {DisplayBuild([dom |-> dom, used |-> Ids(dom)], Before, v)} :
          /\ dom' = r.dom
          /\ state' = r.st
    /\ source' = v
    /\ op' = [kind |-> "build", from |-> source, wrote |-> FALSE]
    /\ UNCHANGED <<aborted, runVars, withVars, floatVars>>

\* Display::rebuild of the state.
DisplayRebuildStep(v) ==
    /\ state # NoState
    /\ \E r \in {DisplayRebuild(dom, state, v)} :
          /\ dom' = r.dom
          /\ state' = r.st
          /\ op' = [kind |-> "rebuild", from |-> source, wrote |-> r.wrote]
    /\ source' = v
    /\ UNCHANGED <<aborted, runVars, withVars, floatVars>>

NextDisplay ==
    \/ \E v \in Counts : DisplayBuildStep(v)
    \/ \E v \in Counts : DisplayRebuildStep(v)

SpecDisplay == InitDisplay /\ [][NextDisplay]_vars

\* The decimal text of a count, written out for the counts of one and of
\* two digits.
Decimal(n) ==
    IF n < 10 THEN Digits[n + 1] ELSE Digits[(n \div 10) + 1] \o Digits[(n % 10) + 1]

\* C24: build makes exactly one text node, holding the value's text, at
\* the position; a rebuild keeps that node and makes none, sets its data to
\* the new value's text when the value differs from the stored one and,
\* when it is equal, changes nothing and calls nothing.
C24_DisplayOneNodeLatestText ==
    [][/\ op'.kind = "build" =>
             /\ state'.node \notin Ids(dom)
             /\ dom' = <<Siblings[1], Text(state'.node, Decimal(source')), Siblings[2]>>
       /\ (op'.kind = "rebuild" /\ state # NoState) =>
             /\ state'.node = state.node
             /\ state'.value = source'
             /\ dom' = <<Siblings[1], Text(state.node, Decimal(source')), Siblings[2]>>
             /\ op'.wrote = (source' # source)
             /\ source' = source => (dom' = dom /\ state' = state)]_vars

\* The same as a statement of every state: after any sequence of rebuilds
\* the one node shows the text of the latest value.
DisplayShowsLatest ==
    state # NoState =>
        dom = <<Siblings[1], Text(state.node, Decimal(source)), Siblings[2]>>

\* A rebuild has changed a count of one digit to the count of two digits
\* and has written its text.
C24_Witness ==
    /\ op.kind = "rebuild"
    /\ op.from < 10
    /\ source = 10
    /\ op.wrote
    /\ dom[2].data = "10"

\* ============================================================= local state
\* with_local(init, |cx, local| cx.build((display(*local),
\* on_(Click, |(_, local)| *local += 1), on_(Click, |(model, _)| model.count
\* += 1)))) under an outer Float<Output>. Here float is the outer Float,
\* state the WithLocalState, floated what a run pass has taken out of the two
\* Floats, fpc the position of the run pass; op.inits counts the calls of
\* init and op.passed is the value last handed to the render callback.
MaxLocal == 2

\* The values init may return.
InitValues == {0, 1}

LocalPack(a, on1, on2, v) ==
    [dom |-> on2.dom, used |-> on2.used,
     st |-> [value |-> [inner |-> Some(v)],
             inner |-> [val |-> a.st, local |-> on1.st, outer |-> on2.st]]]

LocalBuildOns(a, on1, v) == LocalPack(a, on1, OnBuild(on1, <<"outer">>), v)

\* local.rs WithLocal::build: value = init(); inner = with(|cx| f(cx,
\* &value)).build(cx); the value goes into a new Float.
LocalBuild(c, before, v) ==
    LocalBuildOns(DisplayBuild(c, before, v), 
                  OnBuild(DisplayBuild(c, before, v), <<"local">>), v)

\* A slip of rebuild: init is run again and its value shown and stored.
LocalRebuildInit(d, st, v) ==
    [dom |-> DisplayRebuild(d, st.inner.val, v).dom, panic |-> FALSE, inits |-> 1,
     passed |-> v,
     st |-> [st EXCEPT !.value = [inner |-> Some(v)],
                       !.inner.val = DisplayRebuild(d, st.inner.val, v).st]]

\* local.rs WithLocal::rebuild: f gets state.value.as_ref().unwrap(), a
\* shared reference; init is not used (v is what it would return).
LocalRebuild(d, st, v) ==
    IF st.value.inner = None
    THEN [dom |-> d, panic |-> TRUE, inits |-> 0, passed |-> 0, st |-> st]
    ELSE [dom |-> DisplayRebuild(d, st.inner.val, st.value.inner[1]).dom,
          panic |-> FALSE, inits |-> 0, passed |-> st.value.inner[1],
          st |-> [st EXCEPT !.inner.val =
                      DisplayRebuild(d, st.inner.val, st.value.inner[1]).st]]

\* The actions of the two handlers on the pair (output, value).
PairAction(pair, act) ==
    IF act = <<"local">> THEN [pair EXCEPT !.value = @ + 1]
    ELSE [pair EXCEPT !.output = @ + 1]

\* event.rs OnState::run on the Float of the pair: take the cell and, with
\* an event, run the action on output.as_mut().unwrap().
PairOnRun(r, h) ==
    IF r.st[h].event = NULL THEN r
    ELSE [st |-> [r.st EXCEPT ![h].event = NULL],
          pair |-> PairAction(r.pair, r.st[h].action)]

\* lib.rs tuple_state! run over the inner state: display, then the handlers
\* in their order.
InnerRun(ist, pair) ==
    PairOnRun(PairOnRun([st |-> ist, pair |-> pair], "local"), "outer")

Taken(o, v) == [output |-> o, value |-> v]

LocalOp(kind, inits, passed) ==
    [kind |-> kind, inits |-> inits, passed |-> passed,
     from |-> IF kind = "taken" THEN [output |-> float.inner, value |-> state.value.inner,
                                      local |-> state.inner.local.event # NULL,
                                      outer |-> state.inner.outer.event # NULL]
              ELSE op.from]

localRest == <<aborted, runVars, withVars, fret>>

\* The outer Float holds the Output; no component is built.
InitLocal ==
    /\ dom = Siblings
    /\ state = NoState
    /\ source = <<>>
    /\ aborted = FALSE
    /\ op = [kind |-> "none", inits |-> 0, passed |-> 0, from |-> <<>>]
    /\ RunIdle
    /\ WithIdle
    /\ float = [inner |-> Some(0)]
    /\ fpc = "idle"
    /\ floated = Taken(None, None)
    /\ poisoned = FALSE
    /\ fret = NoCall

\* Builder::build of the with_local component, init returning v.
LocalBuildStep(v) ==
    /\ state = NoState
    /\ \E r \in {LocalBuild([dom |-> dom, used |-> Ids(dom)], Before, v)} :
          /\ dom' = r.dom
          /\ state' = r.st
    /\ op' = LocalOp("build", op.inits + 1, v)
    /\ UNCHANGED <<source, float, fpc, floated, poisoned, localRest>>

\* Builder::rebuild; v is what init would return now.
LocalRebuildStep(v) ==
    /\ state # NoState
    /\ fpc = "idle"
    /\ ~aborted
    /\ \E r \in {LocalRebuild(dom, state, v)} :
          /\ dom' = r.dom
          /\ state' = r.st
          /\ aborted' = r.panic
          /\ op' = LocalOp("rebuild", op.inits + r.inits, r.passed)
    /\ UNCHANGED <<source, float, fpc, floated, poisoned, runVars, withVars, fret>>

\* A click arrives at the handler h while nothing runs.
LocalFire(h) ==
    /\ state # NoState
    /\ fpc = "idle"
    /\ ~aborted /\ ~poisoned
    /\ state.inner[h].event = NULL
    /\ IF h = "local" THEN state.value.inner[1] < MaxLocal
       ELSE float.inner[1] < MaxLocal
    /\ state' = [state EXCEPT !.inner[h].event = EV]
    /\ op' = LocalOp("fire", op.inits, op.passed)
    /\ UNCHANGED <<dom, source, float, fpc, floated, poisoned, localRest>>

\* local.rs WithLocalState::run, output.float_(..): the outer value is
\* taken for the callback (float.rs: self.inner.take().ok_or(..)?; the
\* unwrap of an Err panics).
TakeOutput ==
    /\ state # NoState
    /\ fpc = "idle"
    /\ ~aborted
    /\ op' = LocalOp("taken", op.inits, op.passed)
    /\ IF float.inner = None
       THEN /\ aborted' = TRUE
            /\ UNCHANGED <<float, fpc, floated>>
       ELSE /\ floated' = Taken(float.inner, None)
            /\ float' = [inner |-> None]
            /\ fpc' = "outer"
            /\ aborted' = aborted
    /\ UNCHANGED <<dom, state, source, poisoned, runVars, withVars, fret>>

\* self.value.float(..): the local value is taken for the inner callback.
TakeValue ==
    /\ fpc = "outer"
    /\ op' = LocalOp("both", op.inits, op.passed)
    /\ IF state.value.inner = None
       THEN /\ aborted' = TRUE
            /\ poisoned' = TRUE
            /\ fpc' = "idle"
            /\ floated' = Taken(None, None)
            /\ state' = state
       ELSE /\ floated' = Taken(floated.output, state.value.inner)
            /\ state' = [state EXCEPT !.value = [inner |-> None]]
            /\ fpc' = "inner"
            /\ UNCHANGED <<aborted, poisoned>>
    /\ UNCHANGED <<dom, source, float, runVars, withVars, fret>>

\* A slip of the inner callback: it returns (output, value).
RunInnerSwapped ==
    /\ fpc = "inner"
    /\ \E r \in {InnerRun(state.inner, Taken(floated.output[1], floated.value[1]))} :
          /\ state' = [state EXCEPT !.inner = r.st,
                                    !.value = [inner |-> Some(r.pair.output)]]
          /\ floated' = Taken(Some(r.pair.value), None)
    /\ fpc' = "back"
    /\ op' = LocalOp("ran", op.inits, op.passed)
    /\ UNCHANGED <<dom, source, float, poisoned, localRest>>

\* The inner callback: data = Float::new((output, value));
\* self.inner.run(&mut data); (output, value) = data.into_inner().unwrap();
\* it returns (value, output), and float stores the value in the local
\* Float and hands the output on.
RunInner ==
    /\ fpc = "inner"
    /\ \E r \in {InnerRun(state.inner, Taken(floated.output[1], floated.value[1]))} :
          /\ state' = [state EXCEPT !.inner = r.st,
                                    !.value = [inner |-> Some(r.pair.value)]]
          /\ floated' = Taken(Some(r.pair.output), None)
    /\ fpc' = "back"
    /\ op' = LocalOp("ran", op.inits, op.passed)
    /\ UNCHANGED <<dom, source, float, poisoned, localRest>>

\* A handler of the inner state panics (and the panic is caught further
\* out): both values are dropped with the unwinding frames and both Floats
\* stay empty.
RunInnerUnwinds ==
    /\ fpc = "inner"
    /\ fpc' = "idle"
    /\ poisoned' = TRUE
    /\ floated' = Taken(None, None)
    /\ op' = LocalOp("unwound", op.inits, op.passed)
    /\ UNCHANGED <<dom, state, source, float, localRest>>

\* float_ stores what its callback returned in the outer Float; run
\* returns.
PutOutput ==
    /\ fpc = "back"
    /\ float' = [inner |-> floated.output]
    /\ floated' = Taken(None, None)
    /\ fpc' = "idle"
    /\ op' = LocalOp("returned", op.inits, op.passed)
    /\ UNCHANGED <<dom, state, source, poisoned, localRest>>

NextLocal ==
    \/ \E v \in InitValues : LocalBuildStep(v)
    \/ \E v \in InitValues : LocalRebuildStep(v)
    \/ \E h \in {"local", "outer"} : LocalFire(h)
    \/ TakeOutput
    \/ TakeValue
    \/ RunInner
    \/ RunInnerUnwinds
    \/ PutOutput

SpecLocal == InitLocal /\ [][NextLocal]_vars

\* The text the display node of the inner state shows.
LocalShown == dom[IndexOf(dom, state.inner.val.node)].data

\* C25: init runs once, at the build, and its value becomes the local
\* value; no later step runs init; a rebuild hands the current local value
\* to the render callback and leaves it as it is; the local value changes
\* only in a run pass.
C25_InitOnceLocalReadOnly ==
    [][/\ op'.kind = "build" =>
             /\ op'.inits = 1
             /\ state'.value.inner = Some(op'.passed)
       /\ state # NoState => op'.inits = op.inits
       /\ (op'.kind = "rebuild" /\ state # NoState /\ ~aborted') =>
             /\ op'.passed = state.value.inner[1]
             /\ state'.value = state.value
             /\ dom'[IndexOf(dom', state.inner.val.node)].data = Decimal(op'.passed)
       /\ (state # NoState /\ state'.value # state.value) =>
             /\ op'.kind \in {"both", "ran"}
             /\ fpc \in {"outer", "inner"}]_vars

\* A rebuild has handed on a local value that only run passes can have
\* made, init having run once.
C25_Witness ==
    /\ op.kind = "rebuild"
    /\ op.inits = 1
    /\ op.passed = MaxLocal
    /\ LocalShown = Decimal(MaxLocal)

Bump(b) == IF b THEN 1 ELSE 0

\* C26: a run pass takes the outer and the local value out of their
\* Floats, runs the inner state on the pair, and returns each to its own
\* Float: at the return the outer Float holds the output as the handlers
\* left it and the local Float the local value as they left it; outside a
\* pass (no panic given) both Floats hold a value, and both are empty only
\* while the inner state is to run.
C26_RunReturnsEachToItsOwner ==
    [][/\ op'.kind = "returned" =>
             /\ float'.inner = Some(op'.from.output[1] + Bump(op'.from.outer))
             /\ state'.value.inner = Some(op'.from.value[1] + Bump(op'.from.local))
       /\ (state' # NoState /\ fpc' = "idle" /\ ~poisoned') =>
             /\ float'.inner # None
             /\ state'.value.inner # None
       /\ (state' # NoState /\ ~poisoned') =>
             ((float'.inner = None /\ state'.value.inner = None) <=> fpc' = "inner")
       /\ fpc' = "inner" => floated' = Taken(op'.from.output, op'.from.value)]_vars

\* A pass has returned after both handlers ran, with different values in
\* the two Floats.
C26_Witness ==
    /\ op.kind = "returned"
    /\ op.from.local /\ op.from.outer
    /\ op.from.output # op.from.value
    /\ float.inner # state.value.inner

\* =================================================================== tuple
\* The component (display(a), on_(Click, inc), display(b), on_(Click,
\* double)) on an Output that is a small wrapping counter. Here state is the
\* tuple of the element states, source the pair <<a, b>>, float holds the
\* Output; op.log lists the elements a step has visited, in time order.
Modulus == 4

\* The elements of the tuple for the values vs, in declared order.
TupleViews(vs) ==
    <<[type |-> "display", v |-> vs[1]], [type |-> "on", action |-> <<"inc">>],
      [type |-> "display", v |-> vs[2]], [type |-> "on", action |-> <<"double">>]>>

\* Builder::build of one element.
ElemBuild(c, before, view) ==
    IF view.type = "display" THEN DisplayBuild(c, before, view.v)
    ELSE OnBuild(c, view.action)

\* Builder::rebuild of one element.
ElemRebuild(d, st, view) ==
    IF view.type = "display" THEN DisplayRebuild(d, st, view.v)
    ELSE [dom |-> d, st |-> OnRebuild(st, view.action)]

\* The handlers on the Output.
CountAction(m, act) == IF act = <<"inc">> THEN (m + 1) % Modulus ELSE (2 * m) % Modulus

\* State::run of one element: a display does nothing, a handler takes its
\* event and runs its action.
ElemRun(st, m) ==
    IF "event" \in DOMAIN st /\ st.event # NULL
    THEN [st |-> [st EXCEPT !.event = NULL], out |-> CountAction(m, st.action)]
    ELSE [st |-> st, out |-> m]

RECURSIVE TupleBuild(_, _, _, _, _)
\* lib.rs tuple_builder! build: ($($a.build(_cx),)*), the elements order
\* (in time) visited, each with the same context.
TupleBuild(c, before, views, order, acc) ==
    IF order = <<>> THEN [dom |-> c.dom, used |-> c.used, st |-> acc.st, log |-> acc.log]
    ELSE TupleBuild(ElemBuild(c, before, views[Head(order)]), before, views, Tail(order),
                    [st |-> (Head(order) :> ElemBuild(c, before, views[Head(order)]).st)
                                @@ acc.st,
                     log |-> Append(acc.log, Head(order))])

RECURSIVE TupleRebuild(_, _, _, _, _)
\* lib.rs tuple_builder! rebuild: $($a.rebuild(_cx, state_a);)*
TupleRebuild(d, st, views, order, log) ==
    IF order = <<>> THEN [dom |-> d, st |-> st, log |-> log]
    ELSE TupleRebuild(ElemRebuild(d, st[Head(order)], views[Head(order)]).dom,
                      [st EXCEPT ![Head(order)] =
                           ElemRebuild(d, st[Head(order)], views[Head(order)]).st],
                      views, Tail(order), Append(log, Head(order)))

RECURSIVE TupleRun(_, _, _, _)
\* lib.rs tuple_state! run: $($a.run(_output);)*
TupleRun(st, m, order, log) ==
    IF order = <<>> THEN [st |-> st, out |-> m, log |-> log]
    ELSE TupleRun([st EXCEPT ![Head(order)] = ElemRun(st[Head(order)], m).st],
                  ElemRun(st[Head(order)], m).out, Tail(order),
                  Append(log, Head(order)))

\* The order of the macro's repetition, right to left: not the one of the
\* code.
DeclaredReversed == <<4, 3, 2, 1>>

\* The order of the macro's repetition $(..)*: as declared.
Declared ==
    <<1, 2, 3, 4>>

tupleRest == <<aborted, runVars, withVars, fpc, floated, poisoned, fret>>

InitTuple ==
    /\ dom = Siblings
    /\ state = NoState
    /\ source = <<0, 0>>
    /\ aborted = FALSE
    /\ op = [kind |-> "none", log |-> <<>>, from |-> 0]
    /\ RunIdle
    /\ WithIdle
    /\ float = [inner |-> Some(0)]
    /\ fpc = "none"
    /\ floated = [value |-> None, by |-> "none"]
    /\ poisoned = FALSE
    /\ fret = NoCall

TupleBuildStep(vs) ==
    /\ state = NoState
    /\ \E r \in {TupleBuild([dom |-> dom, used |-> Ids(dom)], Before, TupleViews(vs),
                            Declared, [st |-> <<>>, log |-> <<>>])} :
          /\ dom' = r.dom
          /\ state' = r.st
          /\ op' = [kind |-> "build", log |-> r.log, from |-> float.inner[1]]
    /\ source' = vs
    /\ UNCHANGED <<float, tupleRest>>

TupleRebuildStep(vs) ==
    /\ state # NoState
    /\ \E r \in {TupleRebuild(dom, state, TupleViews(vs), Declared, <<>>)} :
          /\ dom' = r.dom
          /\ state' = r.st
          /\ op' = [kind |-> "rebuild", log |-> r.log, from |-> float.inner[1]]
    /\ source' = vs
    /\ UNCHANGED <<float, tupleRest>>

\* A click arrives at the handler that is element i.
TupleFire(i) ==
    /\ state # NoState
    /\ state[i].event = NULL
    /\ state' = [state EXCEPT ![i].event = EV]
    /\ op' = [kind |-> "fire", log |-> <<>>, from |-> float.inner[1]]
    /\ UNCHANGED <<dom, source, float, tupleRest>>

\* A run pass over the tuple.
TupleRunStep ==
    /\ state # NoState
    /\ \E r \in {TupleRun(state, float.inner[1], Declared, <<>>)} :
          /\ state' = r.st
          /\ float' = [inner |-> Some(r.out)]
          /\ op' = [kind |-> "run", log |-> r.log, from |-> float.inner[1]]
    /\ UNCHANGED <<dom, source, tupleRest>>

NextTuple ==
    \/ \E vs \in Values \X Values : TupleBuildStep(vs)
    \/ \E vs \in Values \X Values : TupleRebuildStep(vs)
    \/ \E i \in {2, 4} : TupleFire(i)
    \/ TupleRunStep

SpecTuple == InitTuple /\ [][NextTuple]_vars

\* C27: build, rebuild and run visit the elements of a tuple one after the
\* other from the first declared to the last; the nodes a build inserts
\* are children of the parent in the declared order of their elements; a
\* run pass with both handlers pending runs the first declared first.
C27_TupleInDeclaredOrder ==
    [][/\ op'.kind \in {"build", "rebuild", "run"} => op'.log = <<1, 2, 3, 4>>
       /\ op'.kind = "build" =>
             dom' = <<Siblings[1], Text(state'[1].node, Decimal(source'[1])),
                      Text(state'[3].node, Decimal(source'[2])), Siblings[2]>>
       /\ (op'.kind = "rebuild" /\ state # NoState) =>
             dom' = <<Siblings[1], Text(state[1].node, Decimal(source'[1])),
                      Text(state[3].node, Decimal(source'[2])), Siblings[2]>>
       /\ (op'.kind = "run" /\ state # NoState) =>
             /\ state'[2].event = NULL /\ state'[4].event = NULL
             /\ float'.inner[1] =
                   LET a == IF state[2].event # NULL THEN (op'.from + 1) % Modulus
                            ELSE op'.from
                   IN IF state[4].event # NULL THEN (2 * a) % Modulus ELSE a]_vars

\* A run pass with both handlers pending has left the count that only inc
\* before double gives.
C27_Witness ==
    /\ op.kind = "run"
    /\ op.from = 0
    /\ float.inner = Some(2)

\* ------------------------------------------------ one build for each state
\* The objects of the root state that live as long as it does.
RootRefs(st) == <<st.a.handle, st.list.footer, st.end.node, st.b.handle>>

SpawnSyncResult(d) ==
    \E r \in Results : Sync(r, d)

\* run.rs spawn_body: move |data| { sync(data); None }, the user's sync
\* leaving d in the Data.
SpawnSync(d) ==
    Sync(NULL, d)

NextBody ==
    \/ Start
    \/ Build
    \/ Sleep
    \/ Resume
    \/ RunPass
    \/ \E d \in SyncData(model) : SpawnSync(d)
    \/ Rebuild
    \/ Register
    \/ \E h \in (IF state = NoState THEN {} ELSE Range(RunOrder(state))) : Fire(h)

SpecBody == InitRun /\ [][NextBody]_vars

\* C29: a loop started by spawn_body never returns: no sync call hands a
\* completion to run, the state is never dropped, and after a wake the
\* loop goes from the run pass (if no handler panics) to the sync call and
\* from every sync call to the rebuild.
C29_SpawnBodyNeverReturns ==
    [][/\ pc' # "done"
       /\ syncRet' = NULL /\ result' = NULL
       /\ state # NoState => state' # NoState
       /\ (pc = "suspended" /\ pc' # pc) => pc' = "run"
       /\ (pc = "run" /\ pc' # pc) => pc' \in {"sync", "panicked"}
       /\ (pc = "sync" /\ pc' # pc) => (pc' = "rebuild" /\ hist' = Append(hist, "sync"))
       /\ (pc = "rebuild" /\ pc' # pc) => op'.kind = "rebuild"]_vars

\* A wake has been followed by a run pass with a handler, a sync call that
\* changed the Data, and the rebuild.
C29_Witness ==
    /\ pc = "register"
    /\ op.kind = "rebuild"
    /\ trace # <<>>
    /\ model = <<>>
    /\ source = <<>>

\* ------------------------------------------------- the combination left out
RECURSIVE MeetsSourceLess(_, _)
\* Do the two cursors, stepping as the merge steps them, come to stand on a
\* source key less than the existing key? (src, ex: the keys ahead.)
MeetsSourceLess(src, ex) ==
    IF src = <<>> \/ ex = <<>> THEN FALSE
    ELSE IF Head(src) = Head(ex) THEN MeetsSourceLess(Tail(src), Tail(ex))
    ELSE IF Head(src) < Head(ex) THEN TRUE
    ELSE MeetsSourceLess(src, Tail(ex))

RECURSIVE MeetsExistingLess(_, _)
\* Do they come to stand on an existing key less than the source key
\* (source remaining)?
MeetsExistingLess(src, ex) ==
    IF src = <<>> \/ ex = <<>> THEN FALSE
    ELSE IF Head(src) = Head(ex) THEN MeetsExistingLess(Tail(src), Tail(ex))
    ELSE IF Head(src) < Head(ex) THEN FALSE
    ELSE TRUE

\* C30 as stated: the combination that aborts the rebuild as unimplemented
\* is an existing key strictly less than the next source key while source
\* remains; a rebuild aborts exactly when its cursors reach it.
C30_AbortsOnExistingLess ==
    [][(op'.kind = "rebuild" /\ state # NoState) =>
           (aborted' <=> MeetsExistingLess(SortedSeq(DOMAIN source'),
                                           SortedSeq(DOMAIN state.list.data)))]_vars

\* C30 as the code has it: the combination left out is a source key
\* strictly less than the next existing key (both cursors with a key): a
\* rebuild aborts exactly when its cursors reach it, with nothing inserted
\* for that key and nothing removed; an existing key less than the source
\* key has its entry removed by a rebuild that does not abort.
C30_AbortsOnSourceLess ==
    [][(op'.kind = "rebuild" /\ state # NoState) =>
           /\ aborted' <=> MeetsSourceLess(SortedSeq(DOMAIN source'),
                                           SortedSeq(DOMAIN state.list.data))
           /\ aborted' =>
                 /\ DOMAIN state'.list.data = DOMAIN state.list.data
                 /\ IdsOf(dom') = IdsOf(dom)
           /\ ~aborted' => DOMAIN state'.list.data = DOMAIN source']_vars

\* A rebuild has removed an existing key less than the next source key
\* and then aborted on a source key less than the next existing key.
C30_Witness ==
    /\ op.kind = "rebuild"
    /\ aborted
    /\ DOMAIN state.list.data = {0, 2}
    /\ DOMAIN source = {1}

\* =========================================================== destroyed states
\* C31: when a rebuild destroys a state (here: the entries a shorter source
\* truncates), every backing node of the destroyed entry is removed from
\* the parent and its listener goes with its handle: no node and no handle
\* of a truncated entry is left among the children or in the new state.
C31_DestroyedStateReleased ==
    [][(op'.kind = "rebuild" /\ state # NoState) =>
           \A i \in (Len(state'.data) + 1)..Len(state.data) :
               EntryRefs(state.data[i])
                   \cap (Ids(dom') \cup {state'.data[j].state.on.handle :
                                             j \in 1..Len(state'.data)}) = {}]_vars

\* What does hold of the truncated entries: the nodes of their states and
\* their handles are gone; only a header stays behind.
TruncatedStateReleased ==
    [][(op'.kind = "rebuild" /\ state # NoState) =>
           \A i \in (Len(state'.data) + 1)..Len(state.data) :
               (EntryRefs(state.data[i]) \ {state.data[i].header})
                   \cap (Ids(dom') \cup {state'.data[j].state.on.handle :
                                             j \in 1..Len(state'.data)}) = {}]_vars

\* What holds of the keyed entries in the loop: a completed rebuild leaves
\* no node of a removed entry among the children, and a run pass invokes
\* only handlers of states alive at the pass whose cell held an event.
RemovedEntryNeverRuns ==
    [][/\ (op'.kind = "rebuild" /\ pc = "rebuild" /\ ~aborted') =>
              \A k \in DOMAIN state.list.data \ DOMAIN state'.list.data :
                  /\ EntryNodes(state.list.data[k]) \cap Ids(dom') = {}
                  /\ <<"item", k>> \notin Range(RunOrder(state'))
       /\ (pc = "run" /\ pc' # "run") =>
              \A i \in 1..Len(trace') :
                  /\ trace'[i] \in Range(RunOrder(state))
                  /\ OnOf(state, trace'[i]).event # NULL]_vars

\* --------------------------------------------- the attribute after rebuilds
\* C32: after build and any sequence of rebuilds the named attribute agrees
\* with the latest description: present with the described string when the
\* value yields one, absent when it yields none (so build a, rebuild b,
\* rebuild a ends with the attribute equal to a).
C32_AttributeAgreesWithLatest ==
    state # NoState =>
        \A i \in 1..Len(AttrNames) :
            IF source[i] = None THEN dom[AttrNames[i]] = None
            ELSE dom[AttrNames[i]] = Some(Statics[source[i][1]])

\* What does hold: the attribute agrees with the latest description when
\* that differs from the value the state was built with, and after the
\* build alone.
AttributeAgreesWhenChanged ==
    state # NoState =>
        \A i \in 1..Len(AttrNames) :
            (changed(source[i], state[i].value) \/ op.kind = "build") =>
                dom[AttrNames[i]] = with_str(source[i])

\* ========================================================== formatted text
\* The component format_text!(..), a std::fmt::Arguments built on an empty
\* parent. A string is a sequence of characters; Arguments are a literal
\* (as_str() is Some, a static string by address) or a sequence of pieces
\* that std::fmt::write hands to write_str one by one. state is the
\* TextState with its Cow, source the full output last rendered.
MaxPieces == 3

Chars == {"a", "b"}

\* The pieces a write may consist of: empty or one character.
Pieces == {<<>>} \cup {<<c>> : c \in Chars}

RECURSIVE PieceLists(_)
PieceLists(n) ==
    IF n = 0 THEN {<<>>}
    ELSE PieceLists(n - 1) \cup [1..n -> Pieces]

\* The Arguments: lit is the address of a literal, or NULL with pieces.
FormatArgs ==
    {[lit |-> p, pieces |-> <<>>] : p \in 1..Len(Statics)}
        \cup {[lit |-> NULL, pieces |-> ps] : ps \in PieceLists(MaxPieces)}

RECURSIVE Concat(_)
\* Arguments::to_string(): the pieces in a row.
Concat(ps) == IF ps = <<>> THEN <<>> ELSE Head(ps) \o Concat(Tail(ps))

\* The full output of the arguments.
Output(args) ==
    IF args.lit # NULL THEN <<Statics[args.lit]>> ELSE Concat(args.pieces)

Borrowed(p) == [owned |-> FALSE, ptr |-> p, s |-> <<Statics[p]>>]
Owned(s) == [owned |-> TRUE, ptr |-> NULL, s |-> s]

\* text.rs <Arguments as Builder>::build
ArgumentsBuild(c, before, args) ==
    LET node == Fresh(c.used)
        value == IF args.lit # NULL THEN Borrowed(args.lit) ELSE Owned(Concat(args.pieces))
    IN [dom |-> Insert(c.dom, Text(node, value.s), before),
        st |-> [node |-> node, value |-> value]]

\* text.rs UpdateString::write_str
write_str(w, s) ==
    IF ~IsPrefix(s, SubSeq(w.value, w.index + 1, Len(w.value)))
    THEN [value |-> SubSeq(w.value, 1, w.index) \o s,
          index |-> w.index + Len(s), changed |-> TRUE]
    ELSE [w EXCEPT !.index = @ + Len(s)]

RECURSIVE fmt_write(_, _)
\* std::fmt::write(&mut w, args): write_str for each piece in order.
fmt_write(w, ps) ==
    IF ps = <<>> THEN w ELSE fmt_write(write_str(w, Head(ps)), Tail(ps))

\* text.rs rebuild, as_str() is Some(new).
ArgumentsRebuildStr(d, st, p) ==
    IF (IF st.value.owned THEN <<Statics[p]>> = st.value.s ELSE p = st.value.ptr)
    THEN [dom |-> d, st |-> st, wrote |-> FALSE]
    ELSE [dom |-> SetData(d, st.node, <<Statics[p]>>),
          st |-> [st EXCEPT !.value = Borrowed(p)], wrote |-> TRUE]

\* text.rs rebuild, as_str() is None over Cow::Owned: the UpdateString.
ArgumentsRebuildOwned(d, st, w) ==
    [dom |-> IF w.changed THEN SetData(d, st.node, w.value) ELSE d,
     st |-> [st EXCEPT !.value = Owned(w.value)], wrote |-> w.changed]

\* text.rs <Arguments as Builder>::rebuild
ArgumentsRebuild(d, st, args) ==
    IF args.lit # NULL THEN ArgumentsRebuildStr(d, st, args.lit)
    ELSE IF ~st.value.owned
    THEN [dom |-> SetData(d, st.node, Concat(args.pieces)),
          st |-> [st EXCEPT !.value = Owned(Concat(args.pieces))], wrote |-> TRUE]
    ELSE ArgumentsRebuildOwned(d, st,
             fmt_write([value |-> st.value.s, index |-> 0, changed |-> FALSE],
                       args.pieces))

InitFormat ==
    /\ dom = <<>>
    /\ state = NoState
    /\ source = <<>>
    /\ aborted = FALSE
    /\ op = NoOp
    /\ RunIdle
    /\ WithIdle
    /\ FloatIdle

\* Builder::build of the Arguments.
FormatBuildStep(args) ==
    /\ state = NoState
    /\ \E r \in {ArgumentsBuild([dom |-> dom, used |-> {}], NULL, args)} :
          /\ dom' = r.dom
          /\ state' = r.st
    /\ source' = Output(args)
    /\ op' = [kind |-> "build", args |-> args, wrote |-> TRUE]
    /\ UNCHANGED <<aborted, runVars, withVars, floatVars>>

\* Builder::rebuild of the Arguments.
FormatRebuildStep(args) ==
    /\ state # NoState
    /\ \E r \in {ArgumentsRebuild(dom, state, args)} :
          /\ dom' = r.dom
          /\ state' = r.st
          /\ op' = [kind |-> "rebuild", args |-> args, wrote |-> r.wrote]
    /\ source' = Output(args)
    /\ UNCHANGED <<aborted, runVars, withVars, floatVars>>

NextFormat ==
    \/ \E args \in FormatArgs : FormatBuildStep(args)
    \/ \E args \in FormatArgs : FormatRebuildStep(args)

SpecFormat == InitFormat /\ [][NextFormat]_vars

\* C33: after a rebuild with format arguments over a state holding an
\* owned string, the stored string and the node's data both equal the full
\* output of the new arguments, whatever the previous string and the pieces
\* written (the output being a proper prefix of the previous string
\* included); the node's data is written only if the output differs from
\* the previous string.
C33_OwnedRebuildStoresOutput ==
    [][(op'.kind = "rebuild" /\ state # NoState /\ op'.args.lit = NULL
            /\ state.value.owned) =>
           /\ state'.value = Owned(source')
           /\ dom' = <<Text(state.node, source')>>
           /\ op'.wrote => source' # state.value.s]_vars

\* What does hold of that rebuild: the node's data is the stored string,
\* which is the output unless the output is a proper prefix of the string
\* stored before, and then it is that string, unwritten.
OwnedRebuildButPrefix ==
    [][(op'.kind = "rebuild" /\ state # NoState /\ op'.args.lit = NULL
            /\ state.value.owned /\ dom = <<Text(state.node, state.value.s)>>) =>
           /\ dom' = <<Text(state.node, state'.value.s)>>
           /\ op'.wrote <=> ~IsPrefix(source', state.value.s)
           /\ state'.value = IF IsPrefix(source', state.value.s) THEN state.value
                             ELSE Owned(source')]_vars

\* ================================================================ elements
\* The component with(|cx| if .. { cx.build(div(display(n))) } else
\* { cx.build(span(display(n))) }), built at the position between the two
\* siblings: both branches have the state type ElState<DisplayState>. An
\* element is a node whose data is the sequence of its children; source is
\* the description last selected.
ElKinds == {"div", "span"}

Element(id, kind, children) == [id |-> id, kind |-> kind, data |-> children]

\* The descriptions the callback selects from.
ElViews == [kind : ElKinds, n : Counts]

\* el.rs build_el, after create_element: the body is built into the new
\* element, then the element is inserted at the position.
build_el_insert(c, before, kind, el, body) ==
    [dom |-> Insert(c.dom, Element(el, kind, body.dom), before),
     used |-> body.used,
     st |-> [node |-> el, body |-> body.st]]

\* el.rs build_el
build_el(c, before, kind, n) ==
    build_el_insert(c, before, kind, Fresh(c.used),
                    DisplayBuild([dom |-> <<>>, used |-> c.used \cup {Fresh(c.used)}],
                                 NULL, n))

\* el.rs make_el! rebuild: self.0.rebuild with parent state.node; the name
\* of the element is not looked at.
ElRebuild(d, st, kind, n) ==
    [dom |-> SetData(d, st.node,
                     DisplayRebuild(d[IndexOf(d, st.node)].data, st.body, n).dom),
     st |-> [st EXCEPT !.body = DisplayRebuild(d[IndexOf(d, st.node)].data,
                                               st.body, n).st]]

InitEl ==
    /\ dom = Siblings
    /\ state = NoState
    /\ source = [kind |-> "div", n |-> 0]
    /\ aborted = FALSE
    /\ op = NoOp
    /\ RunIdle
    /\ WithIdle
    /\ FloatIdle

\* lib.rs With::build, Cx::build in the Build case: the selected
\* description is built and written to the slot.
ElBuildStep(v) ==
    /\ state = NoState
    /\ \E r \in {build_el([dom |-> dom, used |-> Ids(dom)], Before, v.kind, v.n)} :
          /\ dom' = r.dom
          /\ state' = r.st
    /\ source' = v
    /\ op' = [kind |-> "build", from |-> source]
    /\ UNCHANGED <<aborted, runVars, withVars, floatVars>>

\* lib.rs With::rebuild, Cx::build in the Rebuild case: the selected
\* description is rebuilt into the state.
ElRebuildStep(v) ==
    /\ state # NoState
    /\ \E r \in {ElRebuild(dom, state, v.kind, v.n)} :
          /\ dom' = r.dom
          /\ state' = r.st
    /\ source' = v
    /\ op' = [kind |-> "rebuild", from |-> source]
    /\ UNCHANGED <<aborted, runVars, withVars, floatVars>>

NextEl ==
    \/ \E v \in ElViews : ElBuildStep(v)
    \/ \E v \in ElViews : ElRebuildStep(v)

SpecEl == InitEl /\ [][NextEl]_vars

\* C34: after a build or rebuild with the description the callback
\* selected, the backing structure is the one a fresh build of that
\* description produces: the node under the parent is an element of the
\* selected kind holding the text of the selected value (so after a switch
\* between two element kinds with the same body type the node has the
\* newly selected kind).
C34_RebuildEqualsFreshBuild ==
    state # NoState =>
        dom = <<Siblings[1],
                Element(state.node, source.kind,
                        <<Text(state.body.node, to_string(source.n))>>),
                Siblings[2]>>

\* What does hold: the body shows the selected value, and the element
\* keeps the kind it was built with through every rebuild.
ElKeepsBuiltKind ==
    [][state # NoState =>
           /\ dom'[2].kind = dom[2].kind
           /\ dom' = <<Siblings[1],
                       Element(state.node, dom[2].kind,
                               <<Text(state.body.node, to_string(source'.n))>>),
                       Siblings[2]>>]_vars

\* ------------------------------------------------ when the keyed rebuild aborts
\* Does the source hold a key that the previous entries lack and that is
\* smaller than the key of some previous entry?
InsertsBeforeExisting(src, old) ==
    \E s \in DOMAIN src \ DOMAIN old : \E e \in DOMAIN old : s < e

\* The header comments among the children.
Markers(d) == {d[i].id : i \in {j \in 1..Len(d) : d[j].kind = "comment"}}

C36_EveryEventPassedOnce ==
    [][/\ (pc = "suspended" /\ arrived' # arrived) => (pc' = "suspended" /\ queued')
       /\ (pc = "run" /\ pc' = "sync") =>
              /\ \A h \in Range(RunOrder(state)) :
                     Len(Copies(h, trace')) = Len(Copies(h, arrived))
              /\ \A h \in Range(RunOrder(state')) : OnOf(state', h).event = NULL]_vars

\* What does hold: a recording always wakes the suspended loop; the pass
\* that returns invokes a handler once if events were recorded for it,
\* however many, and not at all if none was, and leaves every cell empty.
RecordedPassedOncePerCell ==
    [][/\ (pc = "suspended" /\ arrived' # arrived) => (pc' = "suspended" /\ queued')
       /\ (pc = "run" /\ pc' = "sync") =>
              /\ \A h \in Range(RunOrder(state)) :
                     Len(Copies(h, trace')) = IF h \in Range(arrived) THEN 1 ELSE 0
              /\ \A h \in Range(RunOrder(state')) : OnOf(state', h).event = NULL]_vars

\* ============================================================ event handler
\* The component on_(Click, move |o| *o = v) alone under the parent, with v
\* the value rendered: the action stored by a render sets the Output to
\* that render's v. state is the OnState, source the v last rendered, model
\* the Output, hist the listeners registered at the parent (by handle),
\* trace the actions the last run pass ran; op.carried tells that a rebuild
\* replaced the action while an event was in the cell.
SetAction(v) == <<"set", v>>

\* event.rs OnState::run on the Output m.
OnStateRun(st, m) ==
    IF st.event = NULL THEN [st |-> st, model |-> m, trace |-> <<>>]
    ELSE [st |-> [st EXCEPT !.event = NULL], model |-> st.action[2],
          trace |-> <<st.action>>]

InitOn ==
    /\ dom = Siblings
    /\ state = NoState
    /\ source = 0
    /\ aborted = FALSE
    /\ op = [kind |-> "none", carried |-> FALSE]
    /\ model = 0
    /\ pc = "idle"
    /\ registered = FALSE
    /\ queued = FALSE
    /\ syncRet = NULL
    /\ result = NULL
    /\ hist = <<>>
    /\ arrived = <<>>
    /\ trace = <<>>
    /\ overwrote = FALSE
    /\ WithIdle
    /\ FloatIdle

onRest == <<aborted, pc, registered, queued, syncRet, result, arrived, withVars,
            floatVars>>

\* event.rs On::build: the cell, and the listener registered at the parent.
OnBuildStep(v) ==
    /\ state = NoState
    /\ \E r \in {OnBuild([dom |-> dom, used |-> Ids(dom)], SetAction(v))} :
          /\ dom' = r.dom
          /\ state' = r.st
          /\ hist' = Append(hist, r.st.handle)
    /\ source' = v
    /\ op' = [kind |-> "build", carried |-> FALSE]
    /\ UNCHANGED <<model, trace, overwrote, onRest>>

\* event.rs On::rebuild
OnRebuildStep(v) ==
    /\ state # NoState
    /\ state' = OnRebuild(state, SetAction(v))
    /\ source' = v
    /\ op' = [kind |-> "rebuild",
              carried |-> op.carried \/ (state.event # NULL /\ v # source)]
    /\ UNCHANGED <<dom, model, hist, trace, overwrote, onRest>>

\* The listener with handle h fires: cell.put(e), on the cell of its state.
OnFire(h) ==
    /\ state # NoState
    /\ state.handle = h
    /\ state' = [state EXCEPT !.event = EV]
    /\ overwrote' = (overwrote \/ state.event # NULL)
    /\ op' = [kind |-> "fire", carried |-> op.carried /\ state.event # NULL]
    /\ UNCHANGED <<dom, source, model, hist, trace, onRest>>

\* A run pass: State::run of the OnState on the Output.
OnRunStep ==
    /\ state # NoState
    /\ \E r \in {OnStateRun(state, model)} :
          /\ state' = r.st
          /\ model' = r.model
          /\ trace' = r.trace
    /\ op' = [kind |-> "run", carried |-> op.carried]
    /\ UNCHANGED <<dom, source, hist, overwrote, onRest>>

NextOn ==
    \/ \E v \in Keys : OnBuildStep(v)
    \/ \E v \in Keys : OnRebuildStep(v)
    \/ \E h \in Range(hist) : OnFire(h)
    \/ OnRunStep

SpecOn == InitOn /\ [][NextOn]_vars

\* C37: a rebuild of an event handler only replaces the stored action: it
\* registers no listener and cancels none, and the cell, a pending event
\* included, is as before; an event delivered in a run pass is handled by
\* the action of the last build or rebuild before that pass.
C37_RebuildOnlyReplacesAction ==
    [][/\ (op'.kind = "rebuild" /\ state # NoState) =>
             /\ state' = [state EXCEPT !.action = SetAction(source')]
             /\ state'.event = state.event
             /\ state'.handle = state.handle
             /\ hist' = hist
             /\ dom' = dom /\ model' = model
       /\ (op'.kind = "run" /\ state # NoState) =>
             IF state.event # NULL
             THEN trace' = <<SetAction(source)>> /\ model' = source
             ELSE trace' = <<>> /\ model' = model]_vars

\* A run pass has delivered an event that was in the cell while a rebuild
\* replaced the action, and the replaced action was not the one run.
C37_Witness ==
    /\ op.kind = "run"
    /\ op.carried
    /\ trace = <<SetAction(source)>>
    /\ model = source
    /\ Len(hist) = 1

\* ------------------------------------------------ the cycle after each wake
\* C38: after every wake the run pass comes before the sync call and the
\* sync call before the rebuild; the rebuild renders the Data as that run
\* pass and that sync call left it, so that when the loop suspends again
\* the children show the Data with every change handlers and sync made in
\* the cycle; and there is no sync call before the first wake.
C38_RunSyncRebuildAfterWake ==
    [][/\ (pc = "suspended" /\ pc' # pc) => (queued /\ pc' = "run")
       /\ (pc = "run" /\ pc' # pc) =>
             /\ hist = <<"render", "suspend">>
             /\ pc' \in {"sync", "panicked"}
       /\ (pc = "sync" /\ pc' # pc) =>
             /\ hist = <<"render", "suspend", "run">>
             /\ pc' \in {"rebuild", "done"}
       /\ (pc = "rebuild" /\ pc' # pc) =>
             /\ hist = <<"render", "suspend", "run", "sync">>
             /\ source' = model
             /\ model' = model
       /\ (pc' = "suspended" /\ pc # pc' /\ op.kind = "rebuild") =>
             /\ source = model
             /\ DOMAIN state.list.data = DOMAIN model
             /\ dom = Expected(state, model)
             /\ \A k \in DOMAIN model : state.list.data[k].state.val.value = model[k]
       /\ (hist' # hist /\ hist' # <<>> /\ hist'[Len(hist')] = "sync") =>
             hist = <<"render", "suspend", "run">>]_vars

\* The loop is about to suspend again after a cycle in which two handlers
\* changed the Data and the rebuild rendered it.
C38_Witness ==
    /\ pc = "sleep"
    /\ op.kind = "rebuild"
    /\ Len(trace) = 2
    /\ model # <<>>
    /\ source = model
    /\ dom = Expected(state, model)

\* ========================================================== iter reconciler
\* The component iter(xs, |cx, i, v| cx.build((display(i), display(v),
\* on_(.., toggle i)))), built at the position between the two siblings;
\* the display of i shows the index each render_item call was given. State
\* and source are as for the slice.
IterBuild(c, before, xs) ==
    FooterInsert(SliceEntries(c, before, xs, 0, <<>>), before)

RECURSIVE IterExtend(_, _, _, _, _, _)
RECURSIVE IterExtendNext(_, _, _, _, _, _)
\* iter.rs rebuild, (Some(v), None): state.data.extend(once(v).chain(
\* self.iter).map(..)), the elements from position j on, each built behind
\* a new header before the footer by render_item(cx, i, v) with the i of
\* the loop.
IterExtend(c, before, xs, j, i, acc) ==
    IF j >= Len(xs) THEN [dom |-> c.dom, used |-> c.used, st |-> acc]
    ELSE IterExtendNext(EntryBuild(c, before, i, xs[j + 1]), before, xs, j, i, acc)

IterExtendNext(e, before, xs, j, i, acc) ==
    IterExtend(e, before, xs, j + 1, i, Append(acc, e.st))

RECURSIVE IterLoop(_, _, _, _, _)
\* iter.rs rebuild: for i in 0.. { match (self.iter.next(), data.next()) }
IterLoop(r, used, st, xs, i) ==
    IF i >= Len(xs) /\ i >= Len(r.data)
    THEN [dom |-> r.dom, st |-> [st EXCEPT !.data = r.data]]
    ELSE IF i >= Len(xs)
    THEN [dom |-> clear(r.dom, r.data[i + 1].header, st.footer),
          st |-> [st EXCEPT !.data = SubSeq(r.data, 1, i)]]
    ELSE IF i >= Len(r.data)
    THEN SlicePack(st, IterExtend([dom |-> r.dom, used |-> used], st.footer, xs,
                                  i, i, r.data))
    ELSE IterLoop(SlicePairSet(r, i, ItemRebuild(r.dom, r.data[i + 1].state,
                                                 i, xs[i + 1])),
                  used, st, xs, i + 1)

\* iter.rs IterBuilder::rebuild
IterRebuild(d, used, st, xs) ==
    IterLoop([dom |-> d, data |-> st.data], used, st, xs, 0)

\* Builder::build of the iter at the position.
IterBuildStep(xs) ==
    /\ state = NoState
    /\ \E r \in {IterBuild([dom |-> dom, used |-> Ids(dom)], Before, xs)} :
          /\ dom' = r.dom
          /\ state' = r.st
    /\ source' = xs
    /\ op' = [kind |-> "build", from |-> source]
    /\ UNCHANGED <<aborted, runVars, withVars, floatVars>>

\* Builder::rebuild of the iter; the renders that shrink are counted out
\* once the parent holds MaxLeak nodes the state does not account for.
IterRebuildStep(xs) ==
    /\ state # NoState
    /\ Len(xs) < Len(state.data) => Cardinality(Leaked(dom, state)) < MaxLeak
    /\ \E r \in {IterRebuild(dom, SliceUsed(dom, state), state, xs)} :
          /\ dom' = r.dom
          /\ state' = r.st
    /\ source' = xs
    /\ op' = [kind |-> "rebuild", from |-> source]
    /\ UNCHANGED <<aborted, runVars, withVars, floatVars>>

NextIter ==
    \/ \E xs \in Slices : IterBuildStep(xs)
    \/ \E xs \in Slices : IterRebuildStep(xs)

SpecIter == InitSlice /\ [][NextIter]_vars

\* C39: every render_item call of the iter reconciler is given the
\* position of its element: after a build and after every rebuild (pairwise
\* or appending) the entry at position k, from 0, was rendered with index k
\* and with the k-th element of the source.
C39_RenderedWithOwnIndex ==
    state # NoState =>
        /\ Len(state.data) = Len(source)
        /\ \A k \in 1..Len(state.data) :
              /\ state.data[k].state.key.value = k - 1
              /\ state.data[k].state.on.action = <<"toggle", k - 1>>
              /\ state.data[k].state.val.value = source[k]

\* What does hold: the entries built by build and those rebuilt pairwise
\* have their own index; every entry appended by one rebuild has the index
\* of the first of them, the length of the state before.
AppendedShareFirstIndex ==
    [][/\ op'.kind = "build" =>
             \A k \in 1..Len(state'.data) : state'.data[k].state.key.value = k - 1
       /\ (op'.kind = "rebuild" /\ state # NoState) =>
             /\ Len(state'.data) = Len(source')
             /\ \A k \in 1..Len(state'.data) :
                   /\ state'.data[k].state.val.value = source'[k]
                   /\ state'.data[k].state.key.value =
                          IF k <= Len(state.data) THEN k - 1 ELSE Len(state.data)]_vars

\* The slice reconciler, for its part, gives every element its position.
SliceRenderedWithOwnIndex ==
    state # NoState =>
        \A k \in 1..Len(state.data) :
            /\ state.data[k].state.key.value = k - 1
            /\ state.data[k].state.on.action = <<"toggle", k - 1>>

\* ==================================================================== clear
\* dom::clear step by step: dom is the children of the parent, source the
\* children at the call, state the two nodes passed as start and end, pc
\* tells whether the loop is running; op.steps counts the passes of the
\* loop.
MaxNodes == 4

\* The parents: up to MaxNodes children, all different nodes, in any order.
Parents ==
    {[i \in DOMAIN s |-> Comment(s[i], "|")] :
        s \in {t \in UNION {[1..n -> 1..MaxNodes] : n \in 0..MaxNodes} :
                  \A i, j \in DOMAIN t : t[i] = t[j] => i = j}}

\* A loop that removes the end node before it stops.
ClearLoopThroughEnd(d, start, end) ==
    IF NextSibling(d, start) = NULL THEN [dom |-> d, done |-> TRUE]
    ELSE [dom |-> RemoveChild(d, NextSibling(d, start)),
          done |-> NextSibling(d, start) = end]

\* dom.rs clear, one pass of while let Some(next) = start.next_sibling():
\* break at end, else parent.remove_child(&next).
ClearLoop(d, start, end) ==
    IF NextSibling(d, start) = NULL \/ NextSibling(d, start) = end
    THEN [dom |-> d, done |-> TRUE]
    ELSE [dom |-> RemoveChild(d, NextSibling(d, start)), done |-> FALSE]

\* A call clear(parent, start, end) with start before end under parent.
InitClear ==
    /\ dom \in Parents
    /\ state \in {[start |-> dom[i].id, end |-> dom[j].id] :
                     i \in 1..Len(dom), j \in 1..Len(dom)}
    /\ IndexOf(dom, state.start) < IndexOf(dom, state.end)
    /\ source = dom
    /\ aborted = FALSE
    /\ op = [kind |-> "call", steps |-> 0]
    /\ model = <<>>
    /\ pc = "clear"
    /\ registered = FALSE
    /\ queued = FALSE
    /\ syncRet = NULL
    /\ result = NULL
    /\ hist = <<>>
    /\ arrived = <<>>
    /\ trace = <<>>
    /\ overwrote = FALSE
    /\ WithIdle
    /\ FloatIdle

\* One pass of the loop of clear.
ClearPass ==
    /\ pc = "clear"
    /\ \E r \in {ClearLoop(dom, state.start, state.end)} :
          /\ dom' = r.dom
          /\ pc' = IF r.done THEN "done" ELSE "clear"
    /\ op' = [kind |-> "pass", steps |-> op.steps + 1]
    /\ UNCHANGED <<state, source, aborted, model, registered, queued, syncRet,
                   result, hist, arrived, trace, overwrote, withVars, floatVars>>

NextClear == ClearPass

SpecClear == InitClear /\ [][NextClear]_vars /\ WF_vars(NextClear)

\* C40: for start before end under one parent, clear terminates; it
\* removes exactly the nodes strictly between start and end and leaves
\* start, end and the nodes outside the span where they were, in their
\* order; with start right before end it removes nothing.
C40_ClearRemovesStrictlyBetween ==
    /\ <>(pc = "done")
    /\ [][pc' = "clear" => Len(dom') < Len(dom)]_vars
    /\ [](pc = "done" =>
             /\ dom = SubSeq(source, 1, IndexOf(source, state.start))
                          \o SubSeq(source, IndexOf(source, state.end), Len(source))
             /\ op.steps = IndexOf(source, state.end) - IndexOf(source, state.start)
             /\ dom = clear(source, state.start, state.end)
             /\ IndexOf(source, state.end) = IndexOf(source, state.start) + 1
                    => dom = source)

\* clear has returned after removing one node, with a node before start
\* left in place.
C40_Witness ==
    /\ pc = "done"
    /\ IndexOf(source, state.start) = 2
    /\ IndexOf(source, state.end) = 4
    /\ dom = <<source[1], source[2], source[4]>>

====
